---- MODULE Spec2Model ----
(***************************************************************************)
(* Ticker tagging engine of Stock_Port: src/src/ingest/news/ticker_tagger.py *)
(* over the DuckDB store of src/src/db/__init__.py.                          *)
(*                                                                           *)
(* Spec     : persist_ticker_associations run by concurrent callers, one     *)
(*            SQL statement per step.                                        *)
(* SpecSeq  : the same calls made by one caller, one after the other.        *)
(* SpecTag  : construction of a TickerTagger and tag_article_text calls.     *)
(* SpecTagRepeat: tag_article_text called again and again on one tagger.     *)
(* SpecRefresh: a second tagger is constructed while the first is in use.    *)
(* SpecRace: two callers persist once each.  SpecPersistTag: one tagger    *)
(* tags, its caller persists, and it tags again.                            *)
(* SpecMerge: _deduplicate_and_score over lists of mentions.                 *)
(* SpecGroups: _deduplicate_and_score over mentions of several symbols.     *)
(* SpecPattern: the loop of _match_ticker_patterns over one candidate.      *)
(***************************************************************************)
EXTENDS Integers, Sequences, FiniteSets, TLC

VARIABLES
    \* ---- the DuckDB store (db/__init__.py create_tables)
    ticker_symbols,               \* table ticker_symbols: set of rows
    article_ticker_associations,  \* table article_ticker_associations: set of rows
    \* ---- persist_ticker_associations, per caller
    pc,                \* position of each caller in the function
    article_id,        \* argument article_id
    ticker_matches,    \* argument ticker_matches
    idx,               \* loop position in ticker_matches (1-based)
    next_id,           \* local next_id
    associations_data, \* local associations_data
    outcome,           \* how the caller's last call ended
    raised_at,         \* statement that raised in the last call
    calls,             \* number of calls started so far
    symbols_at_call,   \* history: ticker_symbols when the call began
    assoc_at_call,     \* history: article_ticker_associations when the call began
    persisted,         \* history: (article_id, symbol) pairs of finished calls
    overlap,           \* history: callers whose call ran during the caller's last call
    \* ---- TickerTagger instance
    symbol_dict, company_name_dict, alias_dict,
    known_symbols_pattern, company_names_pattern,
    load_warning,      \* the exception _load_ticker_data logged, "none" when it logged none
    \* ---- tag_article_text
    tag_title,         \* argument title of the last call
    tag_text,          \* argument text of the last call
    full_text,         \* local full_text of the last call
    matches,           \* local matches of the last call, as far as it got
    final_matches,     \* value returned by the last call
    tag_outcome,       \* how the last call ended
    tag_error,         \* the exception it raised
    tag_calls,         \* number of calls of tag_article_text begun so far
    new_tagger,        \* the TickerTagger whose __init__ is running, if any
    scored             \* the occurrences of a candidate _match_ticker_patterns scored

storeVars   == <<ticker_symbols, article_ticker_associations>>
persistVars == <<pc, article_id, ticker_matches, idx, next_id, associations_data,
                 outcome, raised_at, calls, symbols_at_call, assoc_at_call, persisted,
                 overlap>>
taggerVars  == <<symbol_dict, company_name_dict, alias_dict,
                 known_symbols_pattern, company_names_pattern, load_warning>>
tagVars     == <<tag_title, tag_text, full_text, matches, final_matches, tag_outcome,
                 tag_error, tag_calls>>
refreshVars == <<new_tagger>>
scoreVars   == <<scored>>
vars        == <<storeVars, persistVars, taggerVars, tagVars, refreshVars, scoreVars>>

-----------------------------------------------------------------------------
(* Bounds *)
NumCallers == 2
MaxCalls   == 2
MaxArticle == 2
MaxMatches == 2
MaxWords      == 2   \* words of a document body
MaxMentions   == 3   \* mentions handed to the merge step
MaxIndicators == 1   \* financial indicators found in a context window
MaxOccurrences == 2  \* occurrences of a candidate in a document
MaxTerms      == 1   \* financial terms found in a contextual phrase
MaxTagCalls   == 2   \* calls of tag_article_text on one tagger
MaxScoreWords == 4   \* words of a text given to the pattern loop

Callers  == 1..NumCallers
Articles == 1..MaxArticle

(* Python values *)
None == <<"NoneType">>

Range(s) == {s[k] : k \in DOMAIN s}

SetMax(S) == CHOOSE x \in S : \A y \in S : y <= x

-----------------------------------------------------------------------------
(* Text.  A Python str is a sequence of one-character strings; str offsets   *)
(* are 0-based as in Python, so the character at offset i is s[i + 1].       *)
S_AAPL == <<"A", "A", "P", "L">>
S_aapl == <<"a", "a", "p", "l">>
S_ZYXQ == <<"Z", "Y", "X", "Q">>
S_THE == <<"T", "H", "E">>
S_MSFT == <<"M", "S", "F", "T">>
S_Apple == <<"A", "p", "p", "l", "e">>
S_AppleInc == <<"A", "p", "p", "l", "e", " ", "I", "n", "c", ".">>
S_Theta == <<"T", "h", "e", "t", "a">>
S_Microsoft == <<"M", "i", "c", "r", "o", "s", "o", "f", "t">>
S_shares == <<"s", "h", "a", "r", "e", "s">>
S_DollarAAPL == <<"$", "A", "A", "P", "L">>
S_ParenAAPL == <<"(", "A", "A", "P", "L", ")">>
S_Technology == <<"T", "e", "c", "h", "n", "o", "l", "o", "g", "y">>
S_large == <<"l", "a", "r", "g", "e">>
S_DollarZYXQ == <<"$", "Z", "Y", "X", "Q">>
S_SAID == <<"S", "A", "I", "D">>
S_MarketPrice == <<"m", "a", "r", "k", "e", "t", " ", "p", "r", "i", "c", "e">>
\* alias payloads (JSON text)
J_Empty == <<"[", "]">>
J_Apple == <<"[", "\"", "A", "p", "p", "l", "e", "\"", "]">>
J_AppleTheta == <<"[", "\"", "A", "p", "p", "l", "e", "\"", ",", " ", "\"", "T", "h", "e", "t", "a", "\"", "]">>
J_Broken == <<"[", "\"", "A", "p", "p", "l", "e", "\"">>
\* the documents of the two tagging scenarios
S_AppleSharesRose ==
    <<"A", "p", "p", "l", "e", " ", "(", "A", "A", "P", "L", ")", " ", "s",
      "h", "a", "r", "e", "s", " ", "r", "o", "s", "e", " ", "a", "f", "t",
      "e", "r", " ", "s", "t", "r", "o", "n", "g", " ", "e", "a", "r", "n",
      "i", "n", "g", "s", ";", " ", "$", "A", "A", "P", "L", " ", "b", "e",
      "s", "t", " ", "p", "e", "r", "f", "o", "r", "m", "e", "r", ".">>
S_TradesAsZYXQ ==
    <<"t", "r", "a", "d", "e", "s", " ", "a", "s", " ", "Z", "Y", "X", "Q",
      " ", "o", "n", " ", "N", "A", "S", "D", "A", "Q">>
S_None == <<"N", "o", "n", "e">>
S_Space == <<" ">>

UpperLetters == <<"A", "B", "C", "D", "E", "F", "G", "H", "I", "J", "K", "L", "M",
                  "N", "O", "P", "Q", "R", "S", "T", "U", "V", "W", "X", "Y", "Z">>
LowerLetters == <<"a", "b", "c", "d", "e", "f", "g", "h", "i", "j", "k", "l", "m",
                  "n", "o", "p", "q", "r", "s", "t", "u", "v", "w", "x", "y", "z">>
Digits == {"0", "1", "2", "3", "4", "5", "6", "7", "8", "9"}

IsUpper(c) == \E k \in DOMAIN UpperLetters : UpperLetters[k] = c
IsLower(c) == \E k \in DOMAIN LowerLetters : LowerLetters[k] = c

\* str.upper() and str.lower() on one character
UpperChar(c) ==
    IF IsLower(c) THEN UpperLetters[CHOOSE k \in DOMAIN LowerLetters : LowerLetters[k] = c]
    ELSE c
LowerChar(c) ==
    IF IsUpper(c) THEN LowerLetters[CHOOSE k \in DOMAIN UpperLetters : UpperLetters[k] = c]
    ELSE c

Upper(s) == [k \in DOMAIN s |-> UpperChar(s[k])]
Lower(s) == [k \in DOMAIN s |-> LowerChar(s[k])]

\* \w of the re module, and str.isspace()
IsWordChar(c) == IsUpper(c) \/ IsLower(c) \/ c \in Digits \/ c = "_"
IsSpace(c) == c \in {" ", "\n", "\t"}

\* \b at offset i of text
WordBoundary(text, i) ==
    LET before == i >= 1 /\ i <= Len(text) /\ IsWordChar(text[i])
        after  == i + 1 <= Len(text) /\ i >= 0 /\ IsWordChar(text[i + 1])
    IN before # after

\* the literal lit occurs in text at offset i
LiteralAt(text, i, lit, ignorecase) ==
    /\ i + Len(lit) <= Len(text)
    /\ \A k \in DOMAIN lit :
          IF ignorecase THEN LowerChar(text[i + k]) = LowerChar(lit[k])
          ELSE text[i + k] = lit[k]

\* s[a:b]
Slice(s, a, b) == IF b <= a THEN <<>> ELSE SubSeq(s, a + 1, b)

\* needle in haystack
Contains(haystack, needle) ==
    \E i \in 0..(Len(haystack) - Len(needle)) : LiteralAt(haystack, i, needle, FALSE)

\* a test that takes only the empty string for blank
IsBlankWhenEmpty(s) == s = <<>>

\* not s.strip()
IsBlank(s) == \A k \in DOMAIN s : IsSpace(s[k])

\* ' '.join(s.split())
RECURSIVE SplitWords(_, _, _)
SplitWords(s, k, word) ==
    IF k > Len(s) THEN (IF word = <<>> THEN <<>> ELSE <<word>>)
    ELSE IF IsSpace(s[k])
         THEN (IF word = <<>> THEN <<>> ELSE <<word>>) \o SplitWords(s, k + 1, <<>>)
         ELSE SplitWords(s, k + 1, Append(word, s[k]))

RECURSIVE JoinWords(_)
JoinWords(words) ==
    IF words = <<>> THEN <<>>
    ELSE IF Len(words) = 1 THEN words[1]
    ELSE words[1] \o <<" ">> \o JoinWords(Tail(words))

NormalizeWhitespace(s) == JoinWords(SplitWords(s, 1, <<>>))

\* list.sort(key=len, reverse=True): stable, longest first
RECURSIVE InsertByLen(_, _)
InsertByLen(sorted, x) ==
    IF sorted = <<>> THEN <<x>>
    ELSE IF Len(sorted[1]) >= Len(x) THEN <<sorted[1]>> \o InsertByLen(Tail(sorted), x)
    ELSE <<x>> \o sorted

RECURSIVE SortLongestFirst(_)
SortLongestFirst(names) ==
    IF names = <<>> THEN <<>>
    ELSE InsertByLen(SortLongestFirst(SubSeq(names, 1, Len(names) - 1)), names[Len(names)])

\* re.compile(r'\b(' + '|'.join(alternatives) + r')\b', flags).finditer(text):
\* at each offset the first alternative for which the whole pattern matches,
\* the scan going on where the match ended
FirstAlternativeAt(text, i, alternatives, ignorecase) ==
    LET fits == {k \in DOMAIN alternatives :
                    /\ Len(alternatives[k]) > 0
                    /\ WordBoundary(text, i)
                    /\ LiteralAt(text, i, alternatives[k], ignorecase)
                    /\ WordBoundary(text, i + Len(alternatives[k]))}
    IN IF fits = {} THEN 0 ELSE CHOOSE k \in fits : \A j \in fits : k <= j

RECURSIVE FindIter(_, _, _, _)
FindIter(text, i, alternatives, ignorecase) ==
    IF i >= Len(text) THEN <<>>
    ELSE LET k == FirstAlternativeAt(text, i, alternatives, ignorecase)
         IN IF k = 0 THEN FindIter(text, i + 1, alternatives, ignorecase)
            ELSE LET e == i + Len(alternatives[k])
                 IN <<[start |-> i, end |-> e, group |-> Slice(text, i, e)]>>
                       \o FindIter(text, e, alternatives, ignorecase)

-----------------------------------------------------------------------------
(* Confidences are exact fractions num/den; the code computes them in        *)
(* doubles, which differ from these by rounding in the last place only.      *)
Frac(n, d) == [num |-> n, den |-> d]
FracLeq(a, b) == a.num * b.den <= b.num * a.den
FracLess(a, b) == a.num * b.den < b.num * a.den
FracEq(a, b) == a.num * b.den = b.num * a.den
Hundredths(n) == Frac(n, 100)

-----------------------------------------------------------------------------
(* Python dict: insertion-ordered list of (key, value) entries *)
DictHas(d, key) == \E k \in DOMAIN d : d[k].key = key
DictGet(d, key) ==
    IF DictHas(d, key) THEN d[CHOOSE k \in DOMAIN d : d[k].key = key].value ELSE None
DictSet(d, key, value) ==
    IF DictHas(d, key)
    THEN [k \in DOMAIN d |-> IF d[k].key = key THEN [key |-> key, value |-> value] ELSE d[k]]
    ELSE Append(d, [key |-> key, value |-> value])
DictKeys(d) == [k \in DOMAIN d |-> d[k].key]

-----------------------------------------------------------------------------
(* Module constants of ticker_tagger.py *)
TICKER_BLACKLIST ==
    {<<"T", "H", "E">>, <<"A", "N", "D">>, <<"F", "O", "R">>, <<"A", "R", "E">>,
     <<"B", "U", "T">>, <<"N", "O", "T">>, <<"Y", "O", "U">>, <<"A", "L", "L">>,
     <<"C", "A", "N">>, <<"H", "E", "R">>, <<"W", "A", "S">>, <<"O", "N", "E">>,
     <<"O", "U", "R">>, <<"H", "A", "D">>, <<"D", "A", "Y">>, <<"G", "E", "T">>,
     <<"U", "S", "E">>, <<"M", "A", "N">>, <<"N", "E", "W">>, <<"N", "O", "W">>,
     <<"O", "L", "D">>, <<"S", "E", "E">>, <<"H", "I", "M">>, <<"T", "W", "O">>,
     <<"H", "O", "W">>, <<"I", "T", "S">>, <<"W", "H", "O">>, <<"O", "I", "L">>,
     <<"S", "I", "T">>, <<"S", "E", "T">>, <<"U", "S", "A">>, <<"C", "E", "O">>,
     <<"C", "F", "O">>, <<"C", "T", "O">>, <<"I", "P", "O">>, <<"S", "E", "C">>,
     <<"F", "D", "A">>, <<"F", "B", "I">>, <<"C", "I", "A">>, <<"N", "S", "A">>}

-----------------------------------------------------------------------------
(* Fractions in lowest terms *)
RECURSIVE Gcd(_, _)
Gcd(a, b) == IF b = 0 THEN a ELSE Gcd(b, a % b)

Reduce(f) ==
    LET g == Gcd(f.num, f.den)
    IN IF g = 0 THEN f ELSE Frac(f.num \div g, f.den \div g)

FracAdd(a, b) == Reduce(Frac(a.num * b.den + b.num * a.den, a.den * b.den))
FracMul(a, b) == Reduce(Frac(a.num * b.num, a.den * b.den))
FracMin(a, b) == IF FracLeq(a, b) THEN a ELSE b

RECURSIVE FracSum(_)
FracSum(fs) == IF fs = <<>> THEN Frac(0, 1) ELSE FracAdd(fs[1], FracSum(Tail(fs)))

\* max(confidences)
RECURSIVE FracMaxOf(_)
FracMaxOf(fs) ==
    IF Len(fs) = 1 THEN fs[1]
    ELSE LET rest == FracMaxOf(Tail(fs))
         IN IF FracLess(fs[1], rest) THEN rest ELSE fs[1]

-----------------------------------------------------------------------------
(* TickerMatch (dataclass, lines 35-43) *)
TickerMatch(symbol, company_name, positions, context_snippets, confidence, match_method) ==
    [symbol |-> symbol, company_name |-> company_name, positions |-> positions,
     context_snippets |-> context_snippets, confidence |-> confidence,
     match_method |-> match_method]

-----------------------------------------------------------------------------
(* TickerTagger.__init__: _load_ticker_data and _compile_patterns *)

\* json.loads of the alias payloads that occur in the store
\* (raises JSONDecodeError on any other text)
json_loads(payload) ==
    CASE payload = J_Empty -> [raised |-> FALSE, value |-> <<>>]
      [] payload = J_Apple -> [raised |-> FALSE, value |-> <<S_Apple>>]
      [] payload = J_AppleTheta -> [raised |-> FALSE, value |-> <<S_Apple, S_Theta>>]
      [] OTHER -> [raised |-> TRUE, value |-> <<>>]

\* "SELECT * FROM ticker_symbols WHERE is_active = true", rows in id order
RECURSIVE RowsById(_)
RowsById(rows) ==
    IF rows = {} THEN <<>>
    ELSE LET first == CHOOSE r \in rows : \A o \in rows : r.id <= o.id
         IN <<first>> \o RowsById(rows \ {first})

SelectActiveSymbols(table) == RowsById({r \in table : r.is_active})

\* pd.notna(row.get('aliases')) and row.get('aliases')
HasAliasPayload(row) == row.aliases # None /\ row.aliases # <<>>

\* lines 48-50, and no warning logged yet
EmptyDicts ==
    [symbol_dict |-> <<>>, company_name_dict |-> <<>>, alias_dict |-> <<>>,
     warning |-> "none"]

RECURSIVE AddAliases(_, _, _)
AddAliases(dict, aliases, symbol_obj) ==
    IF aliases = <<>> THEN dict
    ELSE AddAliases(DictSet(dict, Lower(aliases[1]), symbol_obj), Tail(aliases), symbol_obj)

\* line 91: logger.warning(f"failed to load ticker data: {e}"), the maps
\* staying as the loop left them
LoadFailed(dicts, error) == [dicts EXCEPT !.warning = error]

\* the loop of lines 68-88 from row k on; a row whose payload does not parse
\* raises at line 74, inside the try of line 63: the loop ends there (line 90)
RECURSIVE LoadRows(_, _, _)
LoadRows(rows, k, dicts) ==
    IF k > Len(rows) THEN dicts
    ELSE LET row == rows[k]
             loaded == IF HasAliasPayload(row) THEN json_loads(row.aliases)
                       ELSE [raised |-> FALSE, value |-> <<>>]
             parsed == loaded.value
         IN IF loaded.raised THEN LoadFailed(dicts, "JSONDecodeError")
            ELSE LET symbol_obj == [id |-> row.id, symbol |-> row.symbol,
                                    company_name |-> row.company_name,
                                    aliases |-> parsed, sector |-> row.sector]
                 IN LoadRows(rows, k + 1,
                       [symbol_dict |-> DictSet(dicts.symbol_dict, row.symbol, symbol_obj),
                        company_name_dict |->
                            IF row.company_name # None /\ row.company_name # <<>>
                            THEN DictSet(dicts.company_name_dict,
                                         Lower(row.company_name), symbol_obj)
                            ELSE dicts.company_name_dict,
                        alias_dict |-> AddAliases(dicts.alias_dict, parsed, symbol_obj),
                        warning |-> dicts.warning])

\* _load_ticker_data, lines 61-93; when the query of lines 64-66 raises (the
\* source cannot be read), line 90 catches that as well
load_ticker_data(available, table) ==
    IF ~available THEN LoadFailed(EmptyDicts, "SourceError")
    ELSE LoadRows(SelectActiveSymbols(table), 1, EmptyDicts)

\* a compiled alternation \b(a|b|...)\b with re.IGNORECASE, or None
NoPattern == [compiled |-> FALSE, alternatives |-> <<>>]
Compiled(alternatives) == [compiled |-> TRUE, alternatives |-> alternatives]

RECURSIVE LongerThan(_, _)
LongerThan(names, n) ==
    IF names = <<>> THEN <<>>
    ELSE (IF Len(names[1]) > n THEN <<names[1]>> ELSE <<>>) \o LongerThan(Tail(names), n)

\* lines 98-110
compile_known_symbols_pattern(sd) ==
    LET symbols == DictKeys(sd)
    IN IF symbols # <<>> THEN Compiled(SortLongestFirst(symbols)) ELSE NoPattern

\* lines 112-124
compile_company_names_pattern(cd) ==
    LET company_names == DictKeys(cd)
        escaped_names == SortLongestFirst(LongerThan(company_names, 3))
    IN IF company_names # <<>> /\ escaped_names # <<>>
       THEN Compiled(escaped_names) ELSE NoPattern

-----------------------------------------------------------------------------
(* The matchers *)

RECURSIVE Flatten(_)
Flatten(lists) == IF lists = <<>> THEN <<>> ELSE lists[1] \o Flatten(Tail(lists))

\* _extract_context, lines 297-307
extract_context(text, start, end, window) ==
    LET context_start == IF start - window > 0 THEN start - window ELSE 0
        context_end == IF end + window < Len(text) THEN end + window ELSE Len(text)
    IN NormalizeWhitespace(Slice(text, context_start, context_end))

\* ticker_obj.get('company_name', '') or ""
NameOrEmpty(ticker_obj) ==
    IF ticker_obj.company_name = None THEN <<>> ELSE ticker_obj.company_name

\* _match_known_symbols, lines 158-190
RECURSIVE KnownSymbolHits(_, _, _, _)
KnownSymbolHits(text, hits, k, sd) ==
    IF k > Len(hits) THEN <<>>
    ELSE LET symbol == Upper(hits[k].group)
             rest == KnownSymbolHits(text, hits, k + 1, sd)
         IN IF symbol \in TICKER_BLACKLIST THEN rest
            ELSE IF ~DictHas(sd, symbol) THEN rest
            ELSE <<TickerMatch(symbol, NameOrEmpty(DictGet(sd, symbol)),
                               <<<<hits[k].start, hits[k].end>>>>,
                               <<extract_context(text, hits[k].start, hits[k].end, 50)>>,
                               Hundredths(90), "known_symbol")>> \o rest

match_known_symbols(text, sd, pattern) ==
    IF ~pattern.compiled THEN <<>>
    ELSE KnownSymbolHits(text, FindIter(text, 0, pattern.alternatives, TRUE), 1, sd)

\* _match_company_names, lines 192-222
RECURSIVE CompanyNameHits(_, _, _, _, _)
CompanyNameHits(text, hits, k, cd, ad) ==
    IF k > Len(hits) THEN <<>>
    ELSE LET company_name == Lower(hits[k].group)
             rest == CompanyNameHits(text, hits, k + 1, cd, ad)
         IN IF ~DictHas(cd, company_name) /\ ~DictHas(ad, company_name) THEN rest
            ELSE LET ticker_obj == IF DictHas(cd, company_name)
                                   THEN DictGet(cd, company_name)
                                   ELSE DictGet(ad, company_name)
                 IN <<TickerMatch(ticker_obj.symbol, NameOrEmpty(ticker_obj),
                                  <<<<hits[k].start, hits[k].end>>>>,
                                  <<extract_context(text, hits[k].start, hits[k].end, 50)>>,
                                  Hundredths(80), "company_name")>> \o rest

match_company_names(text, cd, ad, pattern) ==
    IF ~pattern.compiled THEN <<>>
    ELSE CompanyNameHits(text, FindIter(text, 0, pattern.alternatives, TRUE), 1, cd, ad)

(* The regular expressions of lines 13-16 and 263-267, each by the match it  *)
(* has at an offset. In each of them a quantifier has one length only that  *)
(* lets the rest of the expression match, the longest, so the match at an   *)
(* offset is found without trying shorter ones; the one exception is the    *)
(* optional group of ticker_symbol, tried first and then left out.          *)

UpperSet == Range(UpperLetters)
LowerSet == Range(LowerLetters)
SpaceSet == {" ", "\n", "\t"}

\* [A-Z], and what it accepts under re.IGNORECASE
TickerLetters(ignorecase) == IF ignorecase THEN UpperSet \cup LowerSet ELSE UpperSet

\* the number of characters of chars at offset i of text, at most `most`
RECURSIVE RunLength(_, _, _, _)
RunLength(text, i, chars, most) ==
    IF most = 0 \/ i + 1 > Len(text) THEN 0
    ELSE IF text[i + 1] \notin chars THEN 0
    ELSE 1 + RunLength(text, i + 1, chars, most - 1)

\* the offset after \s* at offset i
SkipSpaces(text, i) == i + RunLength(text, i, SpaceSet, Len(text))

CharAt(text, i, c) == i + 1 <= Len(text) /\ i >= 0 /\ text[i + 1] = c

NoMatch == [found |-> FALSE, end |-> 0, groups |-> <<>>]
Match(end, groups) == [found |-> TRUE, end |-> end, groups |-> groups]

\* the first of the literals that occurs at offset i, 0 when none does
FirstLiteralAt(text, i, literals, ignorecase) ==
    LET fits == {k \in DOMAIN literals : LiteralAt(text, i, literals[k], ignorecase)}
    IN IF fits = {} THEN 0 ELSE CHOOSE k \in fits : \A j \in fits : k <= j

\* r'\b([A-Z]{1,5})\b', line 14
BasicTickerAt(text, i) ==
    LET n == RunLength(text, i, UpperSet, 5)
    IN IF n >= 1 /\ WordBoundary(text, i) /\ WordBoundary(text, i + n)
       THEN Match(i + n, <<Slice(text, i, i + n)>>)
       ELSE NoMatch

\* r'\$([A-Z]{1,5})\b', lines 15 and 267
DollarTickerAt(text, i) ==
    LET n == RunLength(text, i + 1, UpperSet, 5)
    IN IF CharAt(text, i, "$") /\ n >= 1 /\ WordBoundary(text, i + 1 + n)
       THEN Match(i + 1 + n, <<Slice(text, i + 1, i + 1 + n)>>)
       ELSE NoMatch

\* [A-Z][a-z]+ at offset i: the offset after it, -1 when it is not there
CapitalisedWordEnd(text, i) ==
    LET n == RunLength(text, i + 1, LowerSet, Len(text))
    IN IF i + 1 <= Len(text) /\ text[i + 1] \in UpperSet /\ n >= 1 THEN i + 1 + n ELSE -1

\* [A-Z][a-z]+(?:\s+[A-Z][a-z]+)* at offset i with \s*\( after it: the offset
\* after the last word, -1 when there is no such run of words
RECURSIVE CompanyEnd(_, _)
CompanyEnd(text, i) ==
    LET e == CapitalisedWordEnd(text, i)
        s == SkipSpaces(text, e)
    IN IF e < 0 THEN -1
       ELSE IF CharAt(text, s, "(") THEN e
       ELSE IF s > e THEN CompanyEnd(text, s)
       ELSE -1

\* r'([A-Z][a-z]+(?:\s+[A-Z][a-z]+)*)\s*\(\s*([A-Z]{1,5})\s*\)', line 263
CompanyTickerAt(text, i) ==
    LET e == CompanyEnd(text, i)
        open == SkipSpaces(text, e)
        a == SkipSpaces(text, open + 1)
        n == RunLength(text, a, UpperSet, 5)
        close == SkipSpaces(text, a + n)
    IN IF e >= 0 /\ n >= 1 /\ CharAt(text, close, ")")
       THEN Match(close + 1, <<Slice(text, i, e), Slice(text, a, a + n)>>)
       ELSE NoMatch

\* r'\b([A-Z]{1,5})\s+(?:stock|shares|equity)' with re.IGNORECASE, line 264
stock_words ==
    <<<<"s", "t", "o", "c", "k">>,
      <<"s", "h", "a", "r", "e", "s">>,
      <<"e", "q", "u", "i", "t", "y">>>>
TickerStockAt(text, i) ==
    LET n == RunLength(text, i, TickerLetters(TRUE), 5)
        s == SkipSpaces(text, i + n)
        k == FirstLiteralAt(text, s, stock_words, TRUE)
    IN IF WordBoundary(text, i) /\ n >= 1 /\ s > i + n /\ k > 0
       THEN Match(s + Len(stock_words[k]), <<Slice(text, i, i + n)>>)
       ELSE NoMatch

\* r'(?:trades|trading|listed)\s+as\s+([A-Z]{1,5})' with re.IGNORECASE, line 265
trades_words ==
    <<<<"t", "r", "a", "d", "e", "s">>,
      <<"t", "r", "a", "d", "i", "n", "g">>,
      <<"l", "i", "s", "t", "e", "d">>>>
TradesAsAt(text, i) ==
    LET k == FirstLiteralAt(text, i, trades_words, TRUE)
        w == IF k > 0 THEN i + Len(trades_words[k]) ELSE i
        s == SkipSpaces(text, w)
        t == SkipSpaces(text, s + 2)
        n == RunLength(text, t, TickerLetters(TRUE), 5)
    IN IF k > 0 /\ s > w /\ LiteralAt(text, s, <<"a", "s">>, TRUE) /\ t > s + 2 /\ n >= 1
       THEN Match(t + n, <<Slice(text, t, t + n)>>)
       ELSE NoMatch

\* r'ticker\s+(?:symbol\s+)?([A-Z]{1,5})' with re.IGNORECASE, line 266
TickerSymbolAt(text, i) ==
    LET s == SkipSpaces(text, i + 6)
        t == SkipSpaces(text, s + 6)
        with == RunLength(text, t, TickerLetters(TRUE), 5)
        without == RunLength(text, s, TickerLetters(TRUE), 5)
    IN IF ~(LiteralAt(text, i, <<"t", "i", "c", "k", "e", "r">>, TRUE) /\ s > i + 6) THEN NoMatch
       ELSE IF LiteralAt(text, s, <<"s", "y", "m", "b", "o", "l">>, TRUE) /\ t > s + 6 /\ with >= 1
            THEN Match(t + with, <<Slice(text, t, t + with)>>)
       ELSE IF without >= 1 THEN Match(s + without, <<Slice(text, s, s + without)>>)
       ELSE NoMatch

\* TICKER_PATTERNS, lines 13-16
TICKER_PATTERNS == <<"basic_ticker", "dollar_ticker">>

\* contextual_patterns, lines 262-268
contextual_patterns ==
    <<"company_ticker", "ticker_stock", "trades_as", "ticker_symbol", "dollar_ticker">>

MatchAt(pattern, text, i) ==
    CASE pattern = "basic_ticker" -> BasicTickerAt(text, i)
      [] pattern = "dollar_ticker" -> DollarTickerAt(text, i)
      [] pattern = "company_ticker" -> CompanyTickerAt(text, i)
      [] pattern = "ticker_stock" -> TickerStockAt(text, i)
      [] pattern = "trades_as" -> TradesAsAt(text, i)
      [] pattern = "ticker_symbol" -> TickerSymbolAt(text, i)

\* pattern.finditer(text) from offset i on: the matches left to right, none
\* overlapping another
RECURSIVE FindAll(_, _, _)
FindAll(pattern, text, i) ==
    IF i >= Len(text) THEN <<>>
    ELSE LET m == MatchAt(pattern, text, i)
         IN IF ~m.found THEN FindAll(pattern, text, i + 1)
            ELSE <<[start |-> i, end |-> m.end, groups |-> m.groups]>>
                    \o FindAll(pattern, text, m.end)

-----------------------------------------------------------------------------
(* The confidence scorers *)

\* the arithmetic of _calculate_pattern_confidence, lines 311-335, on what it
\* counts: indicators found in the context, '$' + ticker found in the text,
\* full_text.count(ticker), ticker in the penalty list
pattern_confidence(indicators, dollar_prefixed, mention_count, penalised) ==
    LET base == Hundredths(50 + 10 * indicators + (IF dollar_prefixed THEN 20 ELSE 0)
                              + (IF mention_count * 5 < 20 THEN mention_count * 5 ELSE 20))
        confidence == IF penalised THEN FracMul(base, Frac(1, 10)) ELSE base
    IN Reduce(FracMin(confidence, Frac(1, 1)))

\* the arithmetic of _calculate_contextual_confidence, lines 339-351, on what
\* it counts: '(' and ')' in the matched text, terms found in the matched text
contextual_confidence(parenthetical, terms) ==
    Reduce(FracMin(Hundredths(70 + (IF parenthetical THEN 20 ELSE 0) + 10 * terms),
                   Frac(1, 1)))

\* a threshold above the score of a single plain occurrence
PatternThresholdAboveBase == Frac(6, 10)

\* line 245 and line 285: the thresholds of the two matchers
PatternThreshold == Frac(3, 10)
ContextualThreshold == Frac(5, 10)

\* lines 316-317
financial_indicators ==
    <<<<"s", "t", "o", "c", "k">>,
      <<"s", "h", "a", "r", "e", "s">>,
      <<"t", "r", "a", "d", "i", "n", "g">>,
      <<"m", "a", "r", "k", "e", "t">>,
      <<"p", "r", "i", "c", "e">>,
      <<"e", "a", "r", "n", "i", "n", "g", "s">>,
      <<"r", "e", "v", "e", "n", "u", "e">>,
      <<"i", "n", "v", "e", "s", "t", "o", "r">>,
      <<"a", "n", "a", "l", "y", "s", "t">>,
      <<"u", "p", "g", "r", "a", "d", "e">>,
      <<"d", "o", "w", "n", "g", "r", "a", "d", "e">>>>

\* line 332
penalty_list ==
    <<<<"T", "H", "E">>,
      <<"A", "N", "D">>,
      <<"F", "O", "R">>,
      <<"A", "R", "E">>,
      <<"B", "U", "T">>,
      <<"N", "O", "T">>,
      <<"Y", "O", "U">>,
      <<"A", "L", "L">>,
      <<"C", "A", "N">>,
      <<"H", "E", "R">>,
      <<"W", "A", "S">>,
      <<"O", "N", "E">>,
      <<"O", "U", "R">>,
      <<"H", "A", "D">>,
      <<"B", "U", "T">>,
      <<"S", "A", "I", "D">>>>

\* line 346
financial_terms ==
    <<<<"s", "t", "o", "c", "k">>,
      <<"s", "h", "a", "r", "e", "s">>,
      <<"t", "i", "c", "k", "e", "r">>,
      <<"s", "y", "m", "b", "o", "l">>,
      <<"t", "r", "a", "d", "e", "s">>,
      <<"l", "i", "s", "t", "e", "d">>,
      <<"n", "a", "s", "d", "a", "q">>,
      <<"n", "y", "s", "e">>>>

\* s.count(sub): occurrences of sub in s from offset i on, none overlapping another
RECURSIVE Count(_, _, _)
Count(s, sub, i) ==
    IF i + Len(sub) > Len(s) THEN 0
    ELSE IF LiteralAt(s, i, sub, FALSE) THEN 1 + Count(s, sub, i + Len(sub))
    ELSE Count(s, sub, i + 1)

\* the words of the list that occur in s, one for each place in the list
WordsFound(words, s) == Cardinality({k \in DOMAIN words : Contains(s, words[k])})

\* _calculate_pattern_confidence, lines 309-335
calculate_pattern_confidence(ticker, context, text) ==
    pattern_confidence(WordsFound(financial_indicators, Lower(context)),
                       Contains(text, <<"$">> \o ticker),
                       Count(text, ticker, 0),
                       \E k \in DOMAIN penalty_list : penalty_list[k] = ticker)

\* _calculate_contextual_confidence, lines 337-351
calculate_contextual_confidence(ticker, context, matched_text) ==
    contextual_confidence(Contains(matched_text, <<"(">>) /\ Contains(matched_text, <<")">>),
                          WordsFound(financial_terms, Lower(matched_text)))

-----------------------------------------------------------------------------
(* The pattern matcher and the contextual matcher *)

\* [t for t in re.findall(pattern, text.upper()) if t not in TICKER_BLACKLIST]
TickersFound(pattern, text) ==
    LET found == FindAll(pattern, Upper(text), 0)
    IN {found[k].groups[1] : k \in DOMAIN found} \ TICKER_BLACKLIST

\* extract_tickers_from_text, lines 25-31: a set; the order of the list made
\* of it is the set's iteration order, which the language leaves open
extract_tickers_from_text(text) ==
    UNION {TickersFound(TICKER_PATTERNS[k], text) : k \in DOMAIN TICKER_PATTERNS}

\* the lists list(set(tickers)) can be
ListsOfSet(S) ==
    {order \in [1..Cardinality(S) -> S] : \A a, b \in DOMAIN order : a # b => order[a] # order[b]}

\* extract_tickers_from_text (line 25) takes the one parameter text
extract_tickers_from_text_params == {"text"}

\* a Python call binds when every keyword it passes names a parameter;
\* otherwise it raises TypeError before the body runs
CallBinds(params, keywords) == keywords \subseteq params

\* line 229 calls extract_tickers_from_text(text, use_whitelist=False)
match_ticker_patterns_keywords == {"use_whitelist"}

\* lines 238-253: the occurrences of one ticker
RECURSIVE PatternHits(_, _, _, _)
PatternHits(text, ticker, hits, k) ==
    IF k > Len(hits) THEN <<>>
    ELSE LET context == extract_context(text, hits[k].start, hits[k].end, 50)
             confidence == calculate_pattern_confidence(ticker, context, text)
             rest == PatternHits(text, ticker, hits, k + 1)
         IN IF FracLess(PatternThreshold, confidence)
            THEN <<TickerMatch(ticker, <<>>, <<<<hits[k].start, hits[k].end>>>>,
                               <<context>>, confidence, "pattern_match")>> \o rest
            ELSE rest

\* lines 231-253: the loop over potential_tickers
RECURSIVE PatternMatches(_, _, _, _)
PatternMatches(text, sd, potential_tickers, k) ==
    IF k > Len(potential_tickers) THEN <<>>
    ELSE LET ticker == potential_tickers[k]
             rest == PatternMatches(text, sd, potential_tickers, k + 1)
         IN IF DictHas(sd, ticker) THEN rest
            ELSE PatternHits(text, ticker, FindIter(text, 0, <<ticker>>, FALSE), 1) \o rest

\* _match_ticker_patterns, lines 224-255; potential_tickers is the list line 229
\* would be given
match_ticker_patterns(text, sd, potential_tickers) ==
    IF ~CallBinds(extract_tickers_from_text_params \ {"text"}, match_ticker_patterns_keywords)
    THEN [raised |-> TRUE, error |-> "TypeError", value |-> <<>>]
    ELSE [raised |-> FALSE, error |-> "none",
          value |-> PatternMatches(text, sd, potential_tickers, 1)]

\* lines 271-293: the matches of one pattern
RECURSIVE ContextualHits(_, _, _)
ContextualHits(text, hits, k) ==
    IF k > Len(hits) THEN <<>>
    ELSE LET groups == hits[k].groups
             ticker == Upper(groups[Len(groups)])
             context == extract_context(text, hits[k].start, hits[k].end, 100)
             confidence == calculate_contextual_confidence(
                               ticker, context, Slice(text, hits[k].start, hits[k].end))
             company_name == IF Len(groups) > 1 /\ groups[1] # <<>> THEN groups[1] ELSE <<>>
             rest == ContextualHits(text, hits, k + 1)
         IN IF ticker \in TICKER_BLACKLIST THEN rest
            ELSE IF FracLess(ContextualThreshold, confidence)
            THEN <<TickerMatch(ticker, company_name, <<<<hits[k].start, hits[k].end>>>>,
                               <<context>>, confidence, "contextual_match")>> \o rest
            ELSE rest

\* _match_contextual_tickers, lines 257-295
match_contextual_tickers(text) ==
    Flatten([k \in DOMAIN contextual_patterns |->
                ContextualHits(text, FindAll(contextual_patterns[k], text, 0), 1)])

-----------------------------------------------------------------------------
(* _deduplicate_and_score, lines 353-405 *)

\* the symbol of every mention, repeated or not
SymbolsInOrderWithRepeats(ms, seen) == [k \in DOMAIN ms |-> ms[k].symbol]

\* keys of symbol_matches in insertion order
RECURSIVE SymbolsInOrder(_, _)
SymbolsInOrder(ms, seen) ==
    IF ms = <<>> THEN <<>>
    ELSE IF \E k \in DOMAIN seen : seen[k] = ms[1].symbol
         THEN SymbolsInOrder(Tail(ms), seen)
         ELSE <<ms[1].symbol>> \o SymbolsInOrder(Tail(ms), Append(seen, ms[1].symbol))

RECURSIVE MatchesOfSymbol(_, _)
MatchesOfSymbol(ms, symbol) ==
    IF ms = <<>> THEN <<>>
    ELSE (IF ms[1].symbol = symbol THEN <<ms[1]>> ELSE <<>>)
            \o MatchesOfSymbol(Tail(ms), symbol)

MethodRank(m) ==
    CASE m = "known_symbol" -> 4
      [] m = "company_name" -> 3
      [] m = "contextual_match" -> 2
      [] m = "pattern_match" -> 1
      [] OTHER -> 0

\* the method of the first mention, whatever its rank
MaxMethodFirst(methods) == methods[1]

\* max(methods, key=rank): the first method of the highest rank
RECURSIVE MaxMethod(_)
MaxMethod(methods) ==
    IF Len(methods) = 1 THEN methods[1]
    ELSE LET rest == MaxMethod(Tail(methods))
         IN IF MethodRank(rest) > MethodRank(methods[1]) THEN rest ELSE methods[1]

\* max(company_names, key=len) over the non-empty names, "" when there is none
RECURSIVE LongestName(_)
LongestName(names) ==
    IF names = <<>> THEN <<>>
    ELSE LET rest == LongestName(Tail(names))
         IN IF Len(rest) > Len(names[1]) THEN rest ELSE names[1]

\* the highest and the average confidence weighted evenly
WeightedConfidenceEvenly(confidences) ==
    FracAdd(FracMul(FracMaxOf(confidences), Frac(1, 2)),
            FracMul(FracMul(FracSum(confidences), Frac(1, Len(confidences))), Frac(1, 2)))

\* line 380: max(confidences) * 0.7 + (sum(confidences) / len(confidences)) * 0.3
WeightedConfidence(confidences) ==
    FracAdd(FracMul(FracMaxOf(confidences), Frac(7, 10)),
            FracMul(FracMul(FracSum(confidences), Frac(1, Len(confidences))), Frac(3, 10)))

\* the weighted confidence left as it is, whatever the number of mentions
BoostedConfidenceWithoutBoost(final_confidence, mention_count) ==
    final_confidence

\* lines 387-391: the boost for more than one mention
BoostedConfidence(final_confidence, mention_count) ==
    IF mention_count > 1
    THEN FracMin(FracMul(final_confidence, Frac(20 + mention_count, 20)), Frac(1, 1))
    ELSE final_confidence

\* lines 367-400 for one symbol
MergeSymbol(symbol, match_list) ==
    LET all_positions == Flatten([k \in DOMAIN match_list |-> match_list[k].positions])
        all_contexts == Flatten([k \in DOMAIN match_list |-> match_list[k].context_snippets])
        confidences == [k \in DOMAIN match_list |-> match_list[k].confidence]
        methods == [k \in DOMAIN match_list |-> match_list[k].match_method]
        company_names == [k \in DOMAIN match_list |-> match_list[k].company_name]
        mention_count == Len(all_positions)
    IN TickerMatch(symbol, LongestName(company_names), all_positions,
                   SubSeq(all_contexts, 1, IF Len(all_contexts) < 5 THEN Len(all_contexts) ELSE 5),
                   BoostedConfidence(WeightedConfidence(confidences), mention_count),
                   MaxMethod(methods))

\* final_matches.sort(key=lambda m: m.confidence, reverse=True): stable
RECURSIVE InsertByConfidence(_, _)
InsertByConfidence(sorted, m) ==
    IF sorted = <<>> THEN <<m>>
    ELSE IF FracLeq(m.confidence, sorted[1].confidence)
         THEN <<sorted[1]>> \o InsertByConfidence(Tail(sorted), m)
         ELSE <<m>> \o sorted

\* the results left in the order of their symbols' first mentions
SortByConfidenceKeepingOrder(ms) == ms

RECURSIVE SortByConfidence(_)
SortByConfidence(ms) ==
    IF ms = <<>> THEN <<>>
    ELSE InsertByConfidence(SortByConfidence(SubSeq(ms, 1, Len(ms) - 1)), ms[Len(ms)])

deduplicate_and_score(ms) ==
    LET symbols == SymbolsInOrder(ms, <<>>)
    IN SortByConfidence([k \in DOMAIN symbols |->
                            MergeSymbol(symbols[k], MatchesOfSymbol(ms, symbols[k]))])

-----------------------------------------------------------------------------
(* tag_article_text, lines 126-156 *)

Truthy(s) == s # None /\ s # <<>>

\* f"{title} {text}" if title else text
FullText(title, text) ==
    IF Truthy(title) THEN title \o <<" ">> \o (IF text = None THEN S_None ELSE text)
    ELSE text

TagResult(how, error, ms, final) ==
    [outcome |-> how, error |-> error, matches |-> ms, final_matches |-> final]

tag_article_text(title, text, sd, cd, ad, known_pattern, names_pattern, potential_tickers) ==
    LET ft == FullText(title, text)
    IN IF ft = None THEN TagResult("raised", "AttributeError", <<>>, <<>>)
       ELSE IF IsBlank(ft) THEN TagResult("returned", "none", <<>>, <<>>)
       ELSE LET known_matches == match_known_symbols(ft, sd, known_pattern)
                company_matches == match_company_names(ft, cd, ad, names_pattern)
                pattern_matches == match_ticker_patterns(ft, sd, potential_tickers)
                contextual_matches == match_contextual_tickers(ft)
                found == known_matches \o company_matches
                all == found \o pattern_matches.value \o contextual_matches
            IN IF pattern_matches.raised
               THEN TagResult("raised", pattern_matches.error, found, <<>>)
               ELSE TagResult("returned", "none", all, deduplicate_and_score(all))

\* the lists line 229 can be given for the text of a call; it is given none
\* when the call of line 229 does not bind or is not reached
PotentialTickers(title, text) ==
    LET ft == FullText(title, text)
    IN IF ft = None \/ IsBlank(ft) THEN {<<>>}
       ELSE IF ~CallBinds(extract_tickers_from_text_params \ {"text"},
                          match_ticker_patterns_keywords) THEN {<<>>}
       ELSE ListsOfSet(extract_tickers_from_text(ft))

\* the call, if the known-symbol matcher consumed the entries of the symbol
\* map it had looked at
TagArticleTextConsumingSnapshot ==
    /\ tag_outcome = "none"
    /\ \E potential_tickers \in PotentialTickers(tag_title, tag_text) :
       \E result \in {tag_article_text(tag_title, tag_text, symbol_dict, company_name_dict,
                                       alias_dict, known_symbols_pattern,
                                       company_names_pattern, potential_tickers)} :
          /\ full_text' = FullText(tag_title, tag_text)
          /\ matches' = result.matches
          /\ final_matches' = result.final_matches
          /\ tag_outcome' = result.outcome
          /\ tag_error' = result.error
    /\ symbol_dict' = <<>>
    /\ UNCHANGED <<storeVars, persistVars, company_name_dict, alias_dict,
                   known_symbols_pattern, company_names_pattern, load_warning,
                   refreshVars, scoreVars,
                   tag_title, tag_text, tag_calls>>

\* the call on the arguments drawn for it
TagArticleText ==
    /\ tag_outcome = "none"
    /\ \E potential_tickers \in PotentialTickers(tag_title, tag_text) :
       \E result \in {tag_article_text(tag_title, tag_text, symbol_dict, company_name_dict,
                                       alias_dict, known_symbols_pattern,
                                       company_names_pattern, potential_tickers)} :
          /\ full_text' = FullText(tag_title, tag_text)
          /\ matches' = result.matches
          /\ final_matches' = result.final_matches
          /\ tag_outcome' = result.outcome
          /\ tag_error' = result.error
    /\ UNCHANGED <<storeVars, persistVars, taggerVars, refreshVars, scoreVars, tag_title, tag_text, tag_calls>>


\* tag_article_text is called again, after the call before it has ended
\* (lines 126-133: the arguments bound, the locals fresh)
TagCall(title, text) ==
    /\ tag_outcome # "none"
    /\ tag_calls < MaxTagCalls
    /\ tag_calls' = tag_calls + 1
    /\ tag_title' = title
    /\ tag_text' = text
    /\ full_text' = <<>>
    /\ matches' = <<>>
    /\ final_matches' = <<>>
    /\ tag_outcome' = "none"
    /\ tag_error' = "none"
    /\ UNCHANGED <<storeVars, persistVars, taggerVars, refreshVars, scoreVars>>
-----------------------------------------------------------------------------
(* Lines 231-253 for one candidate of potential_tickers *)

\* lines 239-243: what the loop computes for every occurrence of the ticker
Scored(text, ticker, hits) ==
    [k \in DOMAIN hits |->
        LET context == extract_context(text, hits[k].start, hits[k].end, 50)
        IN [ticker |-> ticker, start |-> hits[k].start, end |-> hits[k].end,
            context |-> context,
            confidence |-> calculate_pattern_confidence(ticker, context, text)]]

\* one turn of the loop of line 231: the candidate is skipped when it is a
\* known symbol, else each of its occurrences is scored and, above the
\* threshold, appended
MatchCandidate(ticker) ==
    /\ ~DictHas(symbol_dict, ticker)
    /\ LET hits == FindIter(full_text, 0, <<ticker>>, FALSE)
       IN /\ scored' = Scored(full_text, ticker, hits)
          /\ matches' = PatternHits(full_text, ticker, hits, 1)
    /\ UNCHANGED <<storeVars, persistVars, taggerVars, refreshVars, tag_title, tag_text,
                   full_text, final_matches, tag_outcome, tag_error, tag_calls>>
-----------------------------------------------------------------------------
(* Construction of another TickerTagger, step by step (lines 48-59). The     *)
(* class has no method that reloads an instance: a refreshed snapshot is a  *)
(* new instance, which nobody can name before __init__ has returned.        *)

\* an attribute __init__ has not assigned yet
Unset == [compiled |-> FALSE, alternatives |-> <<"unset">>]

\* an instance at a stage of its __init__
Tagger(stage, sd, cd, ad, known_pattern, names_pattern, warning) ==
    [stage |-> stage, symbol_dict |-> sd, company_name_dict |-> cd, alias_dict |-> ad,
     known_symbols_pattern |-> known_pattern, company_names_pattern |-> names_pattern,
     load_warning |-> warning]

NoTagger == Tagger("none", <<>>, <<>>, <<>>, Unset, Unset, "none")

\* lines 48-51: TickerTagger() creates the instance with three empty maps
NewTagger ==
    /\ new_tagger.stage = "none"
    /\ new_tagger' = Tagger("created", <<>>, <<>>, <<>>, Unset, Unset, "none")
    /\ UNCHANGED <<storeVars, persistVars, taggerVars, tagVars, scoreVars>>

\* line 54, in place: _load_ticker_data run on the instance in use
LoadNewIntoInstanceInUse(available) ==
    /\ new_tagger.stage = "created"
    /\ LET dicts == load_ticker_data(available, ticker_symbols)
       IN /\ symbol_dict' = dicts.symbol_dict
          /\ company_name_dict' = dicts.company_name_dict
          /\ alias_dict' = dicts.alias_dict
          /\ load_warning' = dicts.warning
    /\ new_tagger' = [new_tagger EXCEPT !.stage = "loaded"]
    /\ UNCHANGED <<storeVars, persistVars, known_symbols_pattern, company_names_pattern,
                   tagVars, scoreVars>>

\* line 54: _load_ticker_data fills the maps of the new instance
LoadNew(available) ==
    /\ new_tagger.stage = "created"
    /\ LET dicts == load_ticker_data(available, ticker_symbols)
       IN new_tagger' = [new_tagger EXCEPT !.stage = "loaded",
                                           !.symbol_dict = dicts.symbol_dict,
                                           !.company_name_dict = dicts.company_name_dict,
                                           !.alias_dict = dicts.alias_dict,
                                           !.load_warning = dicts.warning]
    /\ UNCHANGED <<storeVars, persistVars, taggerVars, tagVars, scoreVars>>

\* line 57, lines 98-110: the known-symbol pattern of the new instance
CompileKnownNew ==
    /\ new_tagger.stage = "loaded"
    /\ new_tagger' = [new_tagger EXCEPT
                         !.stage = "known_compiled",
                         !.known_symbols_pattern =
                             compile_known_symbols_pattern(new_tagger.symbol_dict)]
    /\ UNCHANGED <<storeVars, persistVars, taggerVars, tagVars, scoreVars>>

\* lines 112-124: the company-name pattern of the new instance
CompileNamesNew ==
    /\ new_tagger.stage = "known_compiled"
    /\ new_tagger' = [new_tagger EXCEPT
                         !.stage = "names_compiled",
                         !.company_names_pattern =
                             compile_company_names_pattern(new_tagger.company_name_dict)]
    /\ UNCHANGED <<storeVars, persistVars, taggerVars, tagVars, scoreVars>>

\* line 59 and the return: TickerTagger() yields the instance, and the callers
\* tag with it from now on
Constructed ==
    /\ new_tagger.stage = "names_compiled"
    /\ symbol_dict' = new_tagger.symbol_dict
    /\ company_name_dict' = new_tagger.company_name_dict
    /\ alias_dict' = new_tagger.alias_dict
    /\ known_symbols_pattern' = new_tagger.known_symbols_pattern
    /\ company_names_pattern' = new_tagger.company_names_pattern
    /\ load_warning' = new_tagger.load_warning
    /\ new_tagger' = NoTagger
    /\ UNCHANGED <<storeVars, persistVars, tagVars, scoreVars>>
-----------------------------------------------------------------------------
(* TickerMatch values handed to persist_ticker_associations.  A result list  *)
(* holds one TickerMatch per symbol, as _deduplicate_and_score builds it.    *)
PersistSymbols == {S_AAPL, S_ZYXQ}

\* two renderings of a result for one symbol: with and without company name and context
ResultVariant(symbol, v) ==
    IF v = 1
    THEN TickerMatch(symbol, S_AppleInc, <<<<0, 4>>>>, <<S_shares>>, Hundredths(90),
                     "known_symbol")
    ELSE TickerMatch(symbol, <<>>, <<<<7, 11>>>>, <<>>, Hundredths(70), "contextual_match")

SymbolLists ==
    {s \in UNION {[1..n -> PersistSymbols] : n \in 0..MaxMatches} :
        \A a, b \in DOMAIN s : a # b => s[a] # s[b]}

ResultLists ==
    {[k \in DOMAIN s |-> ResultVariant(s[k], v)] : s \in SymbolLists, v \in 1..2}

-----------------------------------------------------------------------------
(* DuckDB constraints of create_tables *)

\* ticker_symbols: id INTEGER PRIMARY KEY, symbol TEXT UNIQUE NOT NULL
TickerSymbolsViolation(table, row) ==
    \E r \in table : r.id = row.id \/ r.symbol = row.symbol

\* article_ticker_associations: id INTEGER PRIMARY KEY and no other constraint
AssociationsViolation(table, rows) ==
    \/ \E a, b \in DOMAIN rows : a # b /\ rows[a].id = rows[b].id
    \/ \E r \in table, k \in DOMAIN rows : r.id = rows[k].id

-----------------------------------------------------------------------------
(* persist_ticker_associations *)

\* the lookup, if it saw the active records only
SelectIdBySymbolAmongActive(table, symbol) ==
    {r.id : r \in {x \in table : x.symbol = symbol /\ x.is_active}}

\* "SELECT id FROM ticker_symbols WHERE symbol = ?"
SelectIdBySymbol(table, symbol) == {r.id : r \in {x \in table : x.symbol = symbol}}

\* "SELECT COALESCE(MAX(id), 0) + 1 as next_id FROM ticker_symbols"
SelectNextId(table) == SetMax({r.id : r \in table} \cup {0}) + 1

\* a ticker row that stores an empty company name as it is
NewTickerRowKeepingEmptyName(id, match, now) ==
    [id |-> id, symbol |-> match.symbol, company_name |-> match.company_name,
     aliases |-> J_Empty, sector |-> None, market_cap |-> None,
     is_active |-> TRUE, created_at |-> now]

\* the row of a new ticker, lines 425-434
NewTickerRow(id, match, now) ==
    [id |-> id, symbol |-> match.symbol,
     company_name |-> IF match.company_name # <<>> THEN match.company_name ELSE None,
     aliases |-> J_Empty, sector |-> None, market_cap |-> None,
     is_active |-> TRUE, created_at |-> now]

\* the association row appended to associations_data
NewAssociation(data, article, ticker_id, match, now) ==
    [id |-> Len(data) + 1, article_id |-> article, ticker_id |-> ticker_id,
     confidence |-> match.confidence, match_method |-> match.match_method,
     context_snippet |-> IF match.context_snippets # <<>>
                         THEN match.context_snippets[1] ELSE <<>>,
     created_at |-> now]

CurrentMatch(p) == ticker_matches[p][idx[p]]

Finish(p, how, where) ==
    /\ pc' = [pc EXCEPT ![p] = "idle"]
    /\ outcome' = [outcome EXCEPT ![p] = how]
    /\ raised_at' = [raised_at EXCEPT ![p] = where]
    /\ persisted' = persisted \cup
          {<<article_id[p], ticker_matches[p][k].symbol>> : k \in DOMAIN ticker_matches[p]}

\* lines 447-456 and the loop's next round
AppendAssociation(p, ticker_id) ==
    /\ associations_data' = [associations_data EXCEPT ![p] =
          Append(@, NewAssociation(@, article_id[p], ticker_id, CurrentMatch(p), calls))]
    /\ idx' = [idx EXCEPT ![p] = @ + 1]
    /\ pc' = [pc EXCEPT ![p] =
          IF idx[p] < Len(ticker_matches[p]) THEN "select" ELSE "insert_associations"]

\* a caller enters the function (lines 407-413)
Call(p, article, results) ==
    /\ pc[p] = "idle"
    /\ calls < MaxCalls
    /\ calls' = calls + 1
    /\ article_id' = [article_id EXCEPT ![p] = article]
    /\ ticker_matches' = [ticker_matches EXCEPT ![p] = results]
    /\ idx' = [idx EXCEPT ![p] = 1]
    /\ next_id' = [next_id EXCEPT ![p] = 0]
    /\ associations_data' = [associations_data EXCEPT ![p] = <<>>]
    /\ symbols_at_call' = [symbols_at_call EXCEPT ![p] = ticker_symbols]
    /\ assoc_at_call' = [assoc_at_call EXCEPT ![p] = article_ticker_associations]
    /\ raised_at' = [raised_at EXCEPT ![p] = "none"]
    /\ overlap' = [q \in Callers |->
          IF q = p THEN {c \in Callers : pc[c] # "idle"}
          ELSE IF pc[q] # "idle" /\ results # <<>> THEN overlap[q] \cup {p}
          ELSE overlap[q]]
    /\ IF results = <<>>
       THEN /\ pc' = pc
            /\ outcome' = [outcome EXCEPT ![p] = "returned"]
       ELSE /\ pc' = [pc EXCEPT ![p] = "select"]
            /\ outcome' = [outcome EXCEPT ![p] = "running"]
    /\ UNCHANGED <<storeVars, persisted, taggerVars, refreshVars, scoreVars, tagVars>>

\* lines 417-422, 444-456: look the symbol up
SelectTicker(p) ==
    /\ pc[p] = "select"
    /\ LET existing_ticker == SelectIdBySymbol(ticker_symbols, CurrentMatch(p).symbol)
       IN IF existing_ticker = {}
          THEN /\ pc' = [pc EXCEPT ![p] = "next_id"]
               /\ UNCHANGED <<idx, associations_data>>
          ELSE AppendAssociation(p, CHOOSE t \in existing_ticker : TRUE)
    /\ UNCHANGED <<storeVars, article_id, ticker_matches, next_id, outcome, raised_at,
                   calls, symbols_at_call, assoc_at_call, persisted, overlap,
                   taggerVars, refreshVars, scoreVars, tagVars>>

\* line 424
ReadNextId(p) ==
    /\ pc[p] = "next_id"
    /\ next_id' = [next_id EXCEPT ![p] = SelectNextId(ticker_symbols)]
    /\ pc' = [pc EXCEPT ![p] = "insert_ticker"]
    /\ UNCHANGED <<storeVars, article_id, ticker_matches, idx, associations_data, outcome,
                   raised_at, calls, symbols_at_call, assoc_at_call, persisted, overlap,
                   taggerVars, refreshVars, scoreVars, tagVars>>

\* the insert, if the new record were also entered in the tagger's symbol map
InsertTickerRegisteringSymbol(p) ==
    /\ pc[p] = "insert_ticker"
    /\ LET row == NewTickerRow(next_id[p], CurrentMatch(p), calls)
       IN IF TickerSymbolsViolation(ticker_symbols, row)
          THEN /\ Finish(p, "raised", "insert_ticker")
               /\ UNCHANGED <<ticker_symbols, symbol_dict>>
          ELSE /\ ticker_symbols' = ticker_symbols \cup {row}
               /\ symbol_dict' = DictSet(symbol_dict, row.symbol, row)
               /\ pc' = [pc EXCEPT ![p] = "reselect"]
               /\ UNCHANGED <<outcome, raised_at, persisted>>
    /\ UNCHANGED <<article_ticker_associations, article_id, ticker_matches, idx, next_id,
                   associations_data, calls, symbols_at_call, assoc_at_call, overlap,
                   company_name_dict, alias_dict, known_symbols_pattern,
                   company_names_pattern, load_warning, refreshVars, scoreVars, tagVars>>

\* lines 425-436: insert_dataframe(ticker_data, 'ticker_symbols')
InsertTicker(p) ==
    /\ pc[p] = "insert_ticker"
    /\ LET row == NewTickerRow(next_id[p], CurrentMatch(p), calls)
       IN IF TickerSymbolsViolation(ticker_symbols, row)
          THEN /\ Finish(p, "raised", "insert_ticker")
               /\ UNCHANGED ticker_symbols
          ELSE /\ ticker_symbols' = ticker_symbols \cup {row}
               /\ pc' = [pc EXCEPT ![p] = "reselect"]
               /\ UNCHANGED <<outcome, raised_at, persisted>>
    /\ UNCHANGED <<article_ticker_associations, article_id, ticker_matches, idx, next_id,
                   associations_data, calls, symbols_at_call, assoc_at_call, overlap,
                   taggerVars, refreshVars, scoreVars, tagVars>>

\* lines 439-443, 447-456: read the id of the row just written
ReselectTicker(p) ==
    /\ pc[p] = "reselect"
    /\ LET ticker_result == SelectIdBySymbol(ticker_symbols, CurrentMatch(p).symbol)
       IN AppendAssociation(p, CHOOSE t \in ticker_result : TRUE)
    /\ UNCHANGED <<storeVars, article_id, ticker_matches, next_id, outcome, raised_at,
                   calls, symbols_at_call, assoc_at_call, persisted, overlap,
                   taggerVars, refreshVars, scoreVars, tagVars>>

\* the insert, if it stored the first association row only
InsertAssociationsFirstRowOnly(p) ==
    /\ pc[p] = "insert_associations"
    /\ IF AssociationsViolation(article_ticker_associations, associations_data[p])
       THEN /\ Finish(p, "raised", "insert_associations")
            /\ UNCHANGED article_ticker_associations
       ELSE /\ article_ticker_associations' =
                  article_ticker_associations \cup {associations_data[p][1]}
            /\ Finish(p, "returned", "none")
    /\ UNCHANGED <<ticker_symbols, article_id, ticker_matches, idx, next_id,
                   associations_data, calls, symbols_at_call, assoc_at_call, overlap,
                   taggerVars, refreshVars, scoreVars, tagVars>>

\* lines 458-461: insert_dataframe(associations_df, 'article_ticker_associations')
InsertAssociations(p) ==
    /\ pc[p] = "insert_associations"
    /\ IF AssociationsViolation(article_ticker_associations, associations_data[p])
       THEN /\ Finish(p, "raised", "insert_associations")
            /\ UNCHANGED article_ticker_associations
       ELSE /\ article_ticker_associations' =
                  article_ticker_associations \cup Range(associations_data[p])
            /\ Finish(p, "returned", "none")
    /\ UNCHANGED <<ticker_symbols, article_id, ticker_matches, idx, next_id,
                   associations_data, calls, symbols_at_call, assoc_at_call, overlap,
                   taggerVars, refreshVars, scoreVars, tagVars>>

-----------------------------------------------------------------------------
(* The store before the first call: empty, or holding one record that an     *)
(* import wrote (populate_sp500_tickers), active or not.                     *)
SeedRow(active) ==
    [id |-> 1, symbol |-> S_AAPL, company_name |-> S_AppleInc, aliases |-> J_Empty,
     sector |-> S_Technology, market_cap |-> S_large, is_active |-> active,
     created_at |-> 0]

InitialStores == {{}, {SeedRow(TRUE)}, {SeedRow(FALSE)}}

InitPersist ==
    /\ pc = [p \in Callers |-> "idle"]
    /\ article_id = [p \in Callers |-> 0]
    /\ ticker_matches = [p \in Callers |-> <<>>]
    /\ idx = [p \in Callers |-> 1]
    /\ next_id = [p \in Callers |-> 0]
    /\ associations_data = [p \in Callers |-> <<>>]
    /\ outcome = [p \in Callers |-> "none"]
    /\ raised_at = [p \in Callers |-> "none"]
    /\ calls = 0
    /\ symbols_at_call = [p \in Callers |-> {}]
    /\ assoc_at_call = [p \in Callers |-> {}]
    /\ persisted = {}
    /\ overlap = [p \in Callers |-> {}]

\* TickerTagger() over a store: lines 48-59
InitTagger(available, table) ==
    LET dicts == load_ticker_data(available, table)
    IN /\ load_warning = dicts.warning
       /\ symbol_dict = dicts.symbol_dict
       /\ company_name_dict = dicts.company_name_dict
       /\ alias_dict = dicts.alias_dict
       /\ known_symbols_pattern = compile_known_symbols_pattern(dicts.symbol_dict)
       /\ company_names_pattern = compile_company_names_pattern(dicts.company_name_dict)
       /\ new_tagger = NoTagger

InitTagIdle ==
    /\ tag_title = <<>>
    /\ tag_text = <<>>
    /\ full_text = <<>>
    /\ matches = <<>>
    /\ final_matches = <<>>
    /\ tag_outcome = "none"
    /\ tag_error = "none"
    /\ tag_calls = 0
    /\ scored = <<>>

Init ==
    /\ ticker_symbols \in InitialStores
    /\ article_ticker_associations = {}
    /\ InitPersist
    /\ InitTagger(TRUE, ticker_symbols)
    /\ InitTagIdle

Step(p) ==
    \/ SelectTicker(p)
    \/ ReadNextId(p)
    \/ InsertTicker(p)
    \/ ReselectTicker(p)
    \/ InsertAssociations(p)

Next ==
    \/ \E p \in Callers, a \in Articles, r \in ResultLists : Call(p, a, r)
    \/ \E p \in Callers : Step(p)

Spec == Init /\ [][Next]_vars

\* two callers, each persisting once the results of a document into a store
\* that starts empty, their calls overlapping or not
Racers == {p \in Callers : p <= 2}

InitRace ==
    /\ ticker_symbols = {}
    /\ article_ticker_associations = {}
    /\ InitPersist
    /\ InitTagger(TRUE, ticker_symbols)
    /\ InitTagIdle

NextRace ==
    \/ \E p \in Racers, a \in Articles, r \in ResultLists :
          outcome[p] = "none" /\ Call(p, a, r)
    \/ \E p \in Racers : Step(p)

SpecRace == InitRace /\ [][NextRace]_vars

\* one caller only, making its calls one after the other
SoleCaller == CHOOSE p \in Callers : \A q \in Callers : p <= q

NextSeq ==
    \/ \E a \in Articles, r \in ResultLists : Call(SoleCaller, a, r)
    \/ Step(SoleCaller)

SpecSeq == Init /\ [][NextSeq]_vars


-----------------------------------------------------------------------------
(* Tagging: a tagger built over a reference store tags documents *)

ReferenceRow(id, symbol, company_name, aliases, active) ==
    [id |-> id, symbol |-> symbol, company_name |-> company_name, aliases |-> aliases,
     sector |-> None, market_cap |-> None, is_active |-> active, created_at |-> 0]

ReferenceStores ==
    { {},
      {ReferenceRow(1, S_AAPL, S_AppleInc, J_Empty, TRUE)},
      {ReferenceRow(1, S_AAPL, S_Apple, J_Empty, TRUE),
       ReferenceRow(2, S_THE, S_Theta, J_Empty, TRUE)},
      {ReferenceRow(1, S_AAPL, S_Apple, J_Empty, FALSE),
       ReferenceRow(2, S_MSFT, None, J_Apple, TRUE)},
      {ReferenceRow(1, S_AAPL, S_Apple, J_Apple, TRUE),
       ReferenceRow(2, S_MSFT, S_Microsoft, J_Broken, TRUE),
       ReferenceRow(3, S_THE, S_Theta, J_Empty, TRUE)} }

Words == {S_AAPL, S_aapl, S_Apple, S_THE, S_Theta, S_ZYXQ, S_shares}

RECURSIVE Documents(_)
Documents(n) ==
    IF n = 0 THEN {<<>>}
    ELSE LET shorter == Documents(n - 1)
         IN shorter \cup {w : w \in Words}
                    \cup {d \o <<" ">> \o w : d \in shorter \ {<<>>}, w \in Words}

Titles == {None, <<>>, <<" ">>, S_AAPL}
Bodies == Documents(MaxWords) \cup {None, <<" ">>, S_AppleSharesRose, S_TradesAsZYXQ}

\* a tagger built over a reference store that can or cannot be read, and the
\* arguments of a tagging call
InitTag ==
    /\ ticker_symbols \in ReferenceStores
    /\ article_ticker_associations = {}
    /\ InitPersist
    /\ \E available \in BOOLEAN : InitTagger(available, ticker_symbols)
    /\ tag_title \in Titles
    /\ tag_text \in Bodies
    /\ full_text = <<>>
    /\ matches = <<>>
    /\ final_matches = <<>>
    /\ tag_outcome = "none"
    /\ tag_error = "none"
    /\ tag_calls = 1
    /\ scored = <<>>

NextTag == TagArticleText

SpecTag == InitTag /\ [][NextTag]_vars

\* the documents of the calls after the first
RepeatBodies == Documents(1) \cup {None}

NextTagRepeat ==
    \/ TagArticleText
    \/ \E title \in Titles, text \in RepeatBodies : TagCall(title, text)

SpecTagRepeat == InitTag /\ [][NextTagRepeat]_vars

\* a tagger built from an earlier content of the store is in use, and the
\* store has changed or not since
InitRefresh ==
    /\ InitPersist
    /\ ticker_symbols \in ReferenceStores
    /\ article_ticker_associations = {}
    /\ \E earlier \in ReferenceStores, available \in BOOLEAN : InitTagger(available, earlier)
    /\ tag_title \in Titles
    /\ tag_text \in RepeatBodies
    /\ full_text = <<>>
    /\ matches = <<>>
    /\ final_matches = <<>>
    /\ tag_outcome = "none"
    /\ tag_error = "none"
    /\ tag_calls = 1
    /\ scored = <<>>

NextRefresh ==
    \/ TagArticleText
    \/ NewTagger
    \/ \E available \in BOOLEAN : LoadNew(available)
    \/ CompileKnownNew
    \/ CompileNamesNew
    \/ Constructed

SpecRefresh == InitRefresh /\ [][NextRefresh]_vars

-----------------------------------------------------------------------------
(* Merging: the merge step over lists of mentions the matchers can build *)

MergeSymbols == {S_AAPL}

PatternConfidences ==
    {c \in {pattern_confidence(i, d, n, p) :
                i \in 0..MaxIndicators, d \in BOOLEAN, n \in 1..MaxOccurrences,
                p \in BOOLEAN} : FracLess(PatternThreshold, c)}

ContextualConfidences ==
    {c \in {contextual_confidence(par, t) : par \in BOOLEAN, t \in 0..MaxTerms} :
        FracLess(ContextualThreshold, c)}

\* the mentions a matcher appends for a symbol (one span, one context)
Mentions(symbol) ==
    {TickerMatch(symbol, S_Apple, <<<<0, 4>>>>, <<S_shares>>, Hundredths(90), "known_symbol"),
     TickerMatch(symbol, S_Apple, <<<<0, 4>>>>, <<S_shares>>, Hundredths(80), "company_name")}
    \cup {TickerMatch(symbol, <<>>, <<<<0, 4>>>>, <<S_shares>>, c, "pattern_match") :
             c \in PatternConfidences}
    \cup {TickerMatch(symbol, <<>>, <<<<0, 4>>>>, <<S_shares>>, c, "contextual_match") :
             c \in ContextualConfidences}

\* one more mention is found and the list is merged
MergeOneMore(m) ==
    /\ Len(matches) < MaxMentions
    /\ matches' = Append(matches, m)
    /\ final_matches' = deduplicate_and_score(matches')
    /\ UNCHANGED <<storeVars, persistVars, taggerVars, refreshVars, scoreVars, tag_title, tag_text, full_text,
                   tag_outcome, tag_error, tag_calls>>

InitMerge ==
    /\ ticker_symbols = {}
    /\ article_ticker_associations = {}
    /\ InitPersist
    /\ InitTagger(TRUE, ticker_symbols)
    /\ InitTagIdle

NextMerge == \E s \in MergeSymbols : \E m \in Mentions(s) : MergeOneMore(m)

SpecMerge == InitMerge /\ [][NextMerge]_vars

\* mentions of several symbols by all four matchers, with confidences at and
\* between the ends of [0, 1]
GroupSymbols == {S_AAPL, S_MSFT}
GroupConfidences == {Frac(0, 1), Hundredths(55), Frac(1, 1)}
GroupMethods == {"known_symbol", "company_name", "contextual_match", "pattern_match"}

GroupMentions ==
    {TickerMatch(symbol, <<>>, <<<<0, 4>>>>, <<S_shares>>, c, method) :
        symbol \in GroupSymbols, c \in GroupConfidences, method \in GroupMethods}

NextGroups == \E m \in GroupMentions : MergeOneMore(m)

SpecGroups == InitMerge /\ [][NextGroups]_vars

\* a tagger tags a document, its caller persists a result list once, and the
\* tagger tags the same document again
InitPersistTag ==
    /\ ticker_symbols \in InitialStores
    /\ article_ticker_associations = {}
    /\ InitPersist
    /\ InitTagger(TRUE, ticker_symbols)
    /\ tag_title = <<>>
    /\ tag_text \in RepeatBodies
    /\ full_text = <<>>
    /\ matches = <<>>
    /\ final_matches = <<>>
    /\ tag_outcome = "none"
    /\ tag_error = "none"
    /\ tag_calls = 1
    /\ scored = <<>>

NextPersistTag ==
    \/ TagArticleText
    \/ TagCall(tag_title, tag_text)
    \/ \E a \in Articles, r \in ResultLists :
          outcome[SoleCaller] = "none" /\ Call(SoleCaller, a, r)
    \/ Step(SoleCaller)

SpecPersistTag == InitPersistTag /\ [][NextPersistTag]_vars

-----------------------------------------------------------------------------
(* The loop of _match_ticker_patterns over the candidates of a text *)

ScoreWords == {S_ZYXQ, S_DollarZYXQ, S_SAID, S_shares, S_MarketPrice}

\* the texts of one to n words of a set, a space between two words
RECURSIVE DocumentsOver(_, _)
DocumentsOver(words, n) ==
    IF n = 0 THEN {}
    ELSE LET shorter == DocumentsOver(words, n - 1)
         IN shorter \cup words \cup {d \o <<" ">> \o w : d \in shorter, w \in words}

InitPattern ==
    /\ ticker_symbols = {}
    /\ article_ticker_associations = {}
    /\ InitPersist
    /\ InitTagger(TRUE, ticker_symbols)
    /\ tag_title = <<>>
    /\ tag_text \in DocumentsOver(ScoreWords, MaxScoreWords)
    /\ full_text = tag_text
    /\ matches = <<>>
    /\ final_matches = <<>>
    /\ tag_outcome = "none"
    /\ tag_error = "none"
    /\ tag_calls = 0
    /\ scored = <<>>

NextPattern == \E ticker \in extract_tickers_from_text(full_text) : MatchCandidate(ticker)

SpecPattern == InitPattern /\ [][NextPattern]_vars
-----------------------------------------------------------------------------
(* Claims about persist_ticker_associations *)

Finished(p) == pc[p] = "idle" /\ outcome[p] \in {"returned", "raised"}

ResultIndexes(p) == DOMAIN ticker_matches[p]

\* rows of the association table for a document and a symbol
RowsOfPair(article, symbol) ==
    {row \in article_ticker_associations :
        /\ row.article_id = article
        /\ row.ticker_id \in SelectIdBySymbol(ticker_symbols, symbol)}

\* C1: after any sequence of non-overlapping persist calls the association
\* table holds exactly one row for every (document, symbol) pair that a
\* finished call was asked to persist.
C1_ExactlyOneRowPerPersistedPair ==
    \A pair \in persisted : Cardinality(RowsOfPair(pair[1], pair[2])) = 1

\* the pair of result k of caller p's call was stored before the call began
StoredBeforeCall(p, k) ==
    \E row \in assoc_at_call[p] :
        /\ row.article_id = article_id[p]
        /\ row.ticker_id \in SelectIdBySymbol(symbols_at_call[p], ticker_matches[p][k].symbol)

\* C2: a call that carries a (document, symbol) pair whose association is
\* already stored completes normally and every row stored before the call is
\* still in the table with the same confidence, method, snippet and time.
C2_RepersistCompletesAndKeepsRow ==
    \A p \in Callers :
        (Finished(p) /\ \E k \in ResultIndexes(p) : StoredBeforeCall(p, k))
            => /\ outcome[p] = "returned"
               /\ assoc_at_call[p] \subseteq article_ticker_associations

\* callers p and q ran overlapping calls that both carried symbol s, and s
\* had no record when either call began
RacedOnNewSymbol(p, q, s) ==
    /\ p # q /\ q \in overlap[p]
    /\ Finished(p) /\ Finished(q)
    /\ \E k \in ResultIndexes(p) : ticker_matches[p][k].symbol = s
    /\ \E k \in ResultIndexes(q) : ticker_matches[q][k].symbol = s
    /\ SelectIdBySymbol(symbols_at_call[p], s) = {}
    /\ SelectIdBySymbol(symbols_at_call[q], s) = {}

\* C7: two overlapping calls that both carry the same new symbol both return
\* normally, the store then holds exactly one record of the symbol, and the
\* association each call built for it refers to that record.
C7_ConcurrentNewSymbolBothComplete ==
    \A p, q \in Callers : \A s \in PersistSymbols :
        RacedOnNewSymbol(p, q, s)
            => /\ outcome[p] = "returned" /\ outcome[q] = "returned"
               /\ Cardinality({r \in ticker_symbols : r.symbol = s}) = 1
               /\ \A c \in {p, q} : \E k \in DOMAIN associations_data[c] :
                     /\ ticker_matches[c][k].symbol = s
                     /\ associations_data[c][k].ticker_id
                            \in SelectIdBySymbol(ticker_symbols, s)

\* callers p and q ran overlapping calls for the same document that both
\* carried symbol s
RacedOnSamePair(p, q, s) ==
    /\ p # q /\ q \in overlap[p]
    /\ Finished(p) /\ Finished(q)
    /\ article_id[p] = article_id[q]
    /\ \E k \in ResultIndexes(p) : ticker_matches[p][k].symbol = s
    /\ \E k \in ResultIndexes(q) : ticker_matches[q][k].symbol = s

\* C8: two overlapping calls for the same document and symbol both return
\* normally and leave exactly one association row for the pair.
C8_ConcurrentSamePairBothComplete ==
    \A p, q \in Callers : \A s \in PersistSymbols :
        RacedOnSamePair(p, q, s)
            => /\ outcome[p] = "returned" /\ outcome[q] = "returned"
               /\ Cardinality(RowsOfPair(article_id[p], s)) = 1

\* C9: when looking up or creating the symbol of one result of a call fails,
\* the association of every other result of that call is stored all the same.
C9_SymbolFailureDoesNotStopOthers ==
    \A p \in Callers :
        (Finished(p) /\ raised_at[p] = "insert_ticker")
            => \A k \in ResultIndexes(p) \ {idx[p]} :
                  RowsOfPair(article_id[p], ticker_matches[p][k].symbol) # {}

\* the record a call creates for result m: the symbol, the company name when
\* the result has one, no aliases, active
IsCreatedRecordOf(r, m) ==
    /\ r.symbol = m.symbol
    /\ r.company_name = (IF m.company_name # <<>> THEN m.company_name ELSE None)
    /\ r.aliases = J_Empty
    /\ r.is_active = TRUE

\* C10: (non-overlapping calls) no call fails while resolving a symbol; every
\* association a call has built refers to the id of the one record of its
\* symbol, which exists before the association rows are written; for a symbol
\* without a record when the call began that record is new and is the
\* created record of the result; for a symbol with a record no record is
\* added and the id is the one it had.
C10_CreatesRecordBeforeAssociation ==
    \A p \in Callers :
        /\ raised_at[p] # "insert_ticker"
        /\ \A k \in DOMAIN associations_data[p] :
              LET m    == ticker_matches[p][k]
                  recs == {r \in ticker_symbols : r.symbol = m.symbol}
                  old  == {r \in symbols_at_call[p] : r.symbol = m.symbol}
              IN /\ Cardinality(recs) = 1
                 /\ \A r \in recs : associations_data[p][k].ticker_id = r.id
                 /\ old = {} => \A r \in recs :
                                   /\ r \notin symbols_at_call[p]
                                   /\ IsCreatedRecordOf(r, m)
                                   /\ \A o \in symbols_at_call[p] : o.id # r.id
                 /\ old # {} => recs = old

\* a call that created the record of one of its symbols has stored its rows
C10_Witness ==
    \E p \in Callers :
        /\ outcome[p] = "returned"
        /\ \E k \in DOMAIN associations_data[p] :
              /\ SelectIdBySymbol(symbols_at_call[p], ticker_matches[p][k].symbol) = {}
              /\ associations_data[p][k] \in article_ticker_associations
        /\ \E k \in DOMAIN associations_data[p] :
              SelectIdBySymbol(symbols_at_call[p], ticker_matches[p][k].symbol) # {}

\* caller p's finished call carried results, and the rows the association
\* table held when it began were all of other documents
AfterOtherDocuments(p) ==
    /\ Finished(p)
    /\ ticker_matches[p] # <<>>
    /\ assoc_at_call[p] # {}
    /\ \A row \in assoc_at_call[p] : row.article_id # article_id[p]

\* C26: a call with a non-empty result list, made when the association table
\* holds rows of earlier calls for other documents only, returns normally and
\* the table then holds a row for each of its results.
C26_LaterDocumentStored ==
    \A p \in Callers :
        AfterOtherDocuments(p)
            => /\ outcome[p] = "returned"
               /\ \A k \in ResultIndexes(p) :
                     RowsOfPair(article_id[p], ticker_matches[p][k].symbol) # {}

\* no two records of the store share a symbol or an id
OneRecordPerSymbolAndId ==
    \A a, b \in ticker_symbols : (a.symbol = b.symbol \/ a.id = b.id) => a = b

\* C29: (non-overlapping calls) the store never holds two records of one
\* symbol or of one id; a call goes on to create a record only for a symbol
\* that has no record at all, active or not; and a step that changes the
\* store adds one record, of a symbol without any record, with an id one
\* above the largest id in the store.
C29_OneRecordPerSymbol ==
    /\ []OneRecordPerSymbolAndId
    /\ [][/\ \A p \in Callers :
                (pc[p] = "select" /\ pc'[p] = "next_id")
                    => \A r \in ticker_symbols : r.symbol # CurrentMatch(p).symbol
          /\ ticker_symbols' # ticker_symbols
                => \E row \in ticker_symbols' :
                      /\ row \notin ticker_symbols
                      /\ ticker_symbols' = ticker_symbols \cup {row}
                      /\ \A r \in ticker_symbols : r.symbol # row.symbol /\ r.id < row.id
                      /\ \/ ticker_symbols = {} /\ row.id = 1
                         \/ \E r \in ticker_symbols : row.id = r.id + 1]_vars

\* a call reused the inactive record of its first symbol and created the
\* record of its second, and returned
C29_Witness ==
    \E p \in Callers :
        /\ outcome[p] = "returned"
        /\ Len(associations_data[p]) = 2
        /\ \E r \in symbols_at_call[p] :
              /\ ~r.is_active
              /\ r.symbol = ticker_matches[p][1].symbol
              /\ associations_data[p][1].ticker_id = r.id
        /\ \E r \in ticker_symbols \ symbols_at_call[p] :
              r.symbol = ticker_matches[p][2].symbol
        /\ Cardinality(ticker_symbols) = 2

\* C28: the association table changes only in the step in which a call that
\* has looked up or created the record of every one of its results writes all
\* its association rows at once; the step in which a call fails while
\* resolving a symbol leaves the association table as it is, and no step
\* removes a record from the store, so the records that call created remain.
C28_AssociationsWrittenLastInOneBatch ==
    [][/\ article_ticker_associations' # article_ticker_associations
            => \E p \in Callers :
                  /\ pc[p] = "insert_associations"
                  /\ Len(associations_data[p]) = Len(ticker_matches[p])
                  /\ \A k \in ResultIndexes(p) :
                        \E r \in ticker_symbols :
                            /\ r.symbol = ticker_matches[p][k].symbol
                            /\ r.id = associations_data[p][k].ticker_id
                  /\ article_ticker_associations' =
                        article_ticker_associations \cup Range(associations_data[p])
                  /\ pc'[p] = "idle"
       /\ \A p \in Callers :
             (raised_at[p] # raised_at'[p] /\ raised_at'[p] = "insert_ticker")
                => /\ article_ticker_associations' = article_ticker_associations
                   /\ pc'[p] = "idle"
       /\ ticker_symbols \subseteq ticker_symbols']_vars

\* a call created the record of its first symbol, failed on its second, and
\* wrote no association: the table is as it was when the call began
C28_Witness ==
    \E p \in Callers :
        /\ raised_at[p] = "insert_ticker"
        /\ Len(associations_data[p]) = 1
        /\ \E r \in ticker_symbols \ symbols_at_call[p] :
              /\ r.symbol = ticker_matches[p][1].symbol
              /\ r.id = associations_data[p][1].ticker_id
        /\ article_ticker_associations = assoc_at_call[p]

-----------------------------------------------------------------------------
(* Claims about tag_article_text and the merge step *)

\* word occurs in text as a whole word, in this very spelling
WholeWordOccurrence(text, word) ==
    \E i \in 0..(Len(text) - Len(word)) :
        /\ WordBoundary(text, i)
        /\ LiteralAt(text, i, word, FALSE)
        /\ WordBoundary(text, i + Len(word))

TagCalled == tag_outcome # "none"

\* C3: no matcher lets a blacklisted symbol through: neither the mentions the
\* matchers collected nor the results returned by tag_article_text carry a
\* symbol of the blacklist.
C3_NoBlacklistedSymbol ==
    /\ \A k \in DOMAIN matches : matches[k].symbol \notin TICKER_BLACKLIST
    /\ \A k \in DOMAIN final_matches : final_matches[k].symbol \notin TICKER_BLACKLIST

\* C4: a document with a whole-word occurrence of a known active symbol that
\* is not blacklisted gets a result for that symbol with method known_symbol
\* and final confidence of at least 0.9.
C4_KnownSymbolTagged ==
    (TagCalled /\ full_text # None)
        => \A k \in DOMAIN symbol_dict :
              LET s == symbol_dict[k].key
              IN (s \notin TICKER_BLACKLIST /\ WholeWordOccurrence(full_text, s))
                    => /\ tag_outcome = "returned"
                       /\ \E j \in DOMAIN final_matches :
                             /\ final_matches[j].symbol = s
                             /\ final_matches[j].match_method = "known_symbol"
                             /\ FracLeq(Frac(9, 10), final_matches[j].confidence)

\* C5: merging a non-empty collection of mentions of a symbol with one more
\* mention of it never lowers the symbol's final confidence.
C5_MergeMonotone ==
    [][\A a \in DOMAIN final_matches : \A b \in DOMAIN final_matches' :
          final_matches[a].symbol = final_matches'[b].symbol
             => FracLeq(final_matches[a].confidence, final_matches'[b].confidence)]_vars

\* a mention weaker than the first was merged in and the result is below 1
C5_Witness ==
    /\ tag_outcome = "none"
    /\ Len(matches) >= 2
    /\ FracLess(matches[Len(matches)].confidence, matches[1].confidence)
    /\ Len(final_matches) = 1
    /\ Len(final_matches[1].positions) = Len(matches)
    /\ FracLess(final_matches[1].confidence, Frac(1, 1))

\* C6: tag_article_text on a title and a body (both strings) whose combined
\* text is not blank returns a list and does not raise.
C6_NonBlankTextReturns ==
    (TagCalled /\ tag_title # None /\ tag_text # None /\ ~IsBlank(full_text))
        => tag_outcome = "returned"

\* every character of s is whitespace (s may be empty)
OnlyWhitespace(s) == \A k \in DOMAIN s : s[k] \in {" ", "\t", "\n"}

\* C11: tag_article_text on a title and a body (both strings) whose combined
\* text is empty or only whitespace returns an empty list and does not raise.
C11_BlankTextReturnsEmpty ==
    (TagCalled /\ tag_title # None /\ tag_text # None /\ OnlyWhitespace(full_text))
        => (tag_outcome = "returned" /\ final_matches = <<>>)

\* a call with a blank title and an empty body has returned
C11_Witness ==
    /\ tag_outcome = "returned"
    /\ tag_title = <<" ">>
    /\ tag_text = <<>>
    /\ Len(full_text) = 2

\* C12: tag_article_text with a null body, whatever the title, returns an
\* empty list and does not raise.
C12_NullTextReturnsEmpty ==
    (TagCalled /\ tag_text = None)
        => (tag_outcome = "returned" /\ final_matches = <<>>)

-----------------------------------------------------------------------------
(* Claims about loading the reference set *)

\* a tagging call on two strings whose combined text is not blank has ended
TaggedText ==
    TagCalled /\ tag_title # None /\ tag_text # None /\ ~OnlyWhitespace(full_text)

ReferenceIndependent == {"pattern_match", "contextual_match"}

\* C13: when the source cannot be read at all, construction still completes
\* with empty maps and a logged warning, and tagging then returns, without
\* raising, what the pattern and contextual matchers find.
C13_SourceFailureDegrades ==
    load_warning = "SourceError"
        => /\ symbol_dict = <<>> /\ company_name_dict = <<>> /\ alias_dict = <<>>
           /\ TaggedText
                 => /\ tag_outcome = "returned"
                    /\ \A k \in DOMAIN matches :
                          matches[k].match_method \in ReferenceIndependent

\* the active rows of the store, and those whose alias payload does not parse
ActiveRows == {r \in ticker_symbols : r.is_active}
Unparseable(row) == HasAliasPayload(row) /\ json_loads(row.aliases).raised

\* C14: when exactly one record of a readable source has an unparseable alias
\* payload, that record is in the symbol map with an empty alias list, and
\* every other record is in the symbol map with its parsed aliases and, when
\* it has a company name, in the company-name map.
C14_MalformedRecordLoadedWithoutAliases ==
    (load_warning # "SourceError" /\ Cardinality({r \in ActiveRows : Unparseable(r)}) = 1)
        => \A r \in ActiveRows :
              /\ DictHas(symbol_dict, r.symbol)
              /\ DictGet(symbol_dict, r.symbol).aliases =
                    (IF Unparseable(r) \/ ~HasAliasPayload(r) THEN <<>>
                     ELSE json_loads(r.aliases).value)
              /\ (~Unparseable(r) /\ r.company_name # None)
                    => DictHas(company_name_dict, Lower(r.company_name))

\* C15: with an empty loaded reference set neither pattern is compiled, the
\* known-symbol and company-name matchers add no mention, and a tagging call
\* on a non-blank text returns with the mentions of the contextual matcher
\* among those it collected.
C15_EmptyReferenceSetDegrades ==
    (symbol_dict = <<>> /\ company_name_dict = <<>>)
        => /\ ~known_symbols_pattern.compiled
           /\ ~company_names_pattern.compiled
           /\ TaggedText
                 => /\ \A k \in DOMAIN matches :
                          matches[k].match_method \in ReferenceIndependent
                    /\ tag_outcome = "returned"
                    /\ Range(match_contextual_tickers(full_text)) \subseteq Range(matches)

-----------------------------------------------------------------------------
(* Claims about the snapshot a tagger works on *)

\* what a call on the snapshot as __init__ built it gives for a document
OnBuiltSnapshot(title, text) ==
    LET dicts == load_ticker_data(load_warning # "SourceError", ticker_symbols)
    IN {tag_article_text(title, text, dicts.symbol_dict, dicts.company_name_dict,
                         dicts.alias_dict,
                         compile_known_symbols_pattern(dicts.symbol_dict),
                         compile_company_names_pattern(dicts.company_name_dict),
                         potential_tickers) :
           potential_tickers \in PotentialTickers(title, text)}

PatternsOfOwnMaps ==
    /\ known_symbols_pattern = compile_known_symbols_pattern(symbol_dict)
    /\ company_names_pattern = compile_company_names_pattern(company_name_dict)

\* the instance under construction has all five fields of a snapshot
CompletelyBuilt == new_tagger.stage = "names_compiled"

-----------------------------------------------------------------------------
(* The two scenarios *)

\* the call on the scenario text alone (no title) has ended
ScenarioTagged(text) ==
    TagCalled /\ ~Truthy(tag_title) /\ tag_text = text

\* C18: tagging "Apple (AAPL) shares rose after strong earnings; $AAPL best
\* performer." with AAPL in the symbol map returns a result for AAPL whose
\* confidence is at least 0.95, whose company name is the one of the symbol
\* map, whose method is known_symbol and which has at least two positions.
C18_AppleScenario ==
    (ScenarioTagged(S_AppleSharesRose) /\ DictHas(symbol_dict, S_AAPL))
        => /\ tag_outcome = "returned"
           /\ \E k \in DOMAIN final_matches :
                 /\ final_matches[k].symbol = S_AAPL
                 /\ FracLeq(Frac(95, 100), final_matches[k].confidence)
                 /\ final_matches[k].company_name =
                       DictGet(symbol_dict, S_AAPL).company_name
                 /\ final_matches[k].match_method = "known_symbol"
                 /\ Len(final_matches[k].positions) >= 2

\* C19: tagging "trades as ZYXQ on NASDAQ" with ZYXQ not in the symbol map
\* returns exactly one result, for ZYXQ, with method contextual_match and a
\* confidence of at least 0.5 (the result that persisting would then store
\* as one new ticker row and one association).
C19_UnknownSymbolScenario ==
    (ScenarioTagged(S_TradesAsZYXQ) /\ ~DictHas(symbol_dict, S_ZYXQ))
        => /\ tag_outcome = "returned"
           /\ Len(final_matches) = 1
           /\ final_matches[1].symbol = S_ZYXQ
           /\ final_matches[1].match_method = "contextual_match"
           /\ FracLeq(Frac(1, 2), final_matches[1].confidence)

-----------------------------------------------------------------------------
(* The arithmetic of the merge *)

\* the collected mentions of a symbol, in the order they were collected
GroupOf(symbol) == SelectSeq(matches, LAMBDA m : m.symbol = symbol)

\* the number of spans the mentions of a group carry
RECURSIVE SpanCount(_)
SpanCount(group) ==
    IF group = <<>> THEN 0 ELSE Len(group[1].positions) + SpanCount(Tail(group))

\* 0.7 * max + 0.3 * mean, then min(x * (1 + 0.05 * n), 1) when n > 1
ClaimedConfidence(group) ==
    LET confidences == [k \in DOMAIN group |-> group[k].confidence]
        mean == FracMul(FracSum(confidences), Frac(1, Len(group)))
        weighted == FracAdd(FracMul(Frac(7, 10), FracMaxOf(confidences)),
                            FracMul(Frac(3, 10), mean))
        n == SpanCount(group)
    IN IF n > 1
       THEN FracMin(FracMul(weighted, FracAdd(Frac(1, 1), Frac(5 * n, 100))), Frac(1, 1))
       ELSE weighted

\* C20: every merged symbol has the confidence 0.7 * max + 0.3 * mean of the
\* confidences of its mentions, replaced, only when its mentions carry more
\* than one span, by min(that * (1 + 0.05 * number of spans), 1.0).
C20_MergeArithmetic ==
    \A k \in DOMAIN final_matches :
        FracEq(final_matches[k].confidence,
               ClaimedConfidence(GroupOf(final_matches[k].symbol)))

\* a symbol merged from three mentions of unequal confidence, whose
\* confidence the boost has raised above the highest of them, to less than 1
C20_Witness ==
    /\ Len(final_matches) = 1
    /\ SpanCount(GroupOf(final_matches[1].symbol)) = 3
    /\ \E i, j \in DOMAIN matches : FracLess(matches[i].confidence, matches[j].confidence)
    /\ \A i \in DOMAIN matches : FracLess(matches[i].confidence, final_matches[1].confidence)
    /\ FracLess(final_matches[1].confidence, Frac(1, 1))

-----------------------------------------------------------------------------
(* The merge over several symbols *)

\* the distinct symbols among the collected mentions
MentionedSymbols == {matches[k].symbol : k \in DOMAIN matches}

\* the results of the merge for a symbol
ResultsFor(symbol) == {j \in DOMAIN final_matches : final_matches[j].symbol = symbol}

\* C21: the merge of mentions with confidences in [0, 1] has exactly one
\* result for each distinct symbol among the mentions, no result for any
\* other symbol, and every result's confidence lies in [0, 1].
C21_OneResultPerSymbolInUnitInterval ==
    /\ \A symbol \in MentionedSymbols : Cardinality(ResultsFor(symbol)) = 1
    /\ \A j \in DOMAIN final_matches :
          /\ final_matches[j].symbol \in MentionedSymbols
          /\ FracLeq(Frac(0, 1), final_matches[j].confidence)
          /\ FracLeq(final_matches[j].confidence, Frac(1, 1))

\* a symbol with a single mention of confidence 1 (the clamp is not applied)
\* merged next to a symbol with two mentions
C21_Witness ==
    /\ Len(matches) = 3
    /\ Len(final_matches) = 2
    /\ \E j \in DOMAIN final_matches :
          /\ Len(final_matches[j].positions) = 1
          /\ FracEq(final_matches[j].confidence, Frac(1, 1))

\* the methods from the highest-ranked to the lowest
MethodsByRank == <<"known_symbol", "company_name", "contextual_match", "pattern_match">>

\* the methods of the mentions of a symbol
MethodsOf(symbol) == {matches[k].match_method : k \in {i \in DOMAIN matches : matches[i].symbol = symbol}}

\* C22: the method of a merged result is a method of one of its mentions,
\* and no mention of the symbol has a method of a higher rank (known_symbol
\* over company_name over contextual_match over pattern_match).
C22_DominantMethod ==
    \A j \in DOMAIN final_matches :
        \E r \in DOMAIN MethodsByRank :
            /\ final_matches[j].match_method = MethodsByRank[r]
            /\ MethodsByRank[r] \in MethodsOf(final_matches[j].symbol)
            /\ \A q \in 1..(r - 1) : MethodsByRank[q] \notin MethodsOf(final_matches[j].symbol)

\* a result took the method known_symbol from the last and weakest of three
\* mentions of its symbol, the first of which was a pattern match
C22_Witness ==
    /\ Len(matches) = 3
    /\ Len(final_matches) = 1
    /\ matches[1].match_method = "pattern_match"
    /\ matches[3].match_method = "known_symbol"
    /\ FracLess(matches[3].confidence, matches[1].confidence)
    /\ FracLess(matches[3].confidence, matches[2].confidence)
    /\ final_matches[1].match_method = "known_symbol"

\* C23: the merged list is in non-increasing order of confidence and has as
\* many results as the mentions have distinct symbols, a result of
\* confidence 0 included: no result is dropped for its confidence.
C23_SortedAndUnfiltered ==
    /\ \A j \in 1..(Len(final_matches) - 1) :
          FracLeq(final_matches[j + 1].confidence, final_matches[j].confidence)
    /\ Len(final_matches) = Cardinality(MentionedSymbols)
    /\ \A k \in DOMAIN matches :
          \E j \in DOMAIN final_matches : final_matches[j].symbol = matches[k].symbol

\* the symbol mentioned first came out last, with confidence 0
C23_Witness ==
    /\ Len(final_matches) = 2
    /\ final_matches[2].symbol = matches[1].symbol
    /\ FracEq(final_matches[2].confidence, Frac(0, 1))
    /\ FracLess(Frac(0, 1), final_matches[1].confidence)

-----------------------------------------------------------------------------
(* The score of the pattern matcher *)

UltraCommon == Range(penalty_list)

\* 0.5, 0.1 for each vocabulary term in the window, 0.2 for a $-prefixed
\* occurrence, 0.05 for each occurrence beyond the first up to 0.2, the sum
\* times 0.1 for an ultra-common token, clamped to [0, 1]
ClaimedPatternScore(r) ==
    LET terms == WordsFound(financial_indicators, Lower(r.context))
        dollar == IF Contains(full_text, <<"$">> \o r.ticker) THEN 20 ELSE 0
        beyond_first == Count(full_text, r.ticker, 0) - 1
        repeated == IF 5 * beyond_first < 20 THEN 5 * beyond_first ELSE 20
        sum == Hundredths(50 + 10 * terms + dollar + repeated)
        product == IF r.ticker \in UltraCommon THEN FracMul(sum, Frac(1, 10)) ELSE sum
    IN FracMin(product, Frac(1, 1))

\* C24: every occurrence the pattern matcher scores gets 0.5 plus 0.1 for each
\* vocabulary term in its window plus 0.2 for a $-prefixed occurrence plus
\* 0.05 for each occurrence beyond the first (0.2 at most), times 0.1 for an
\* ultra-common token, clamped to [0, 1]; a token occurring once with neither
\* term nor $ gets exactly 0.5.
C24_PatternScore ==
    \A k \in DOMAIN scored : FracEq(scored[k].confidence, ClaimedPatternScore(scored[k]))

\* the scored occurrences whose token is not ultra-common
PlainOccurrences == {k \in DOMAIN scored : scored[k].ticker \notin UltraCommon}

-----------------------------------------------------------------------------
(* The company-name matcher *)

\* the offsets at which word occurs in text as a whole word
OccurrencesOf(text, word) ==
    {i \in 0..(Len(text) - Len(word)) :
        /\ WordBoundary(text, i)
        /\ LiteralAt(text, i, word, FALSE)
        /\ WordBoundary(text, i + Len(word))}

\* the canonical name (if any) and the aliases of a loaded record
NamesOf(record) ==
    (IF record.company_name = None \/ record.company_name = <<>> THEN {}
     ELSE {record.company_name}) \cup Range(record.aliases)

\* C25: for every loaded record, every whole-word occurrence of its canonical
\* name or of one of its aliases in the document is among the collected
\* mentions with method company_name, confidence 0.8 and the record's symbol.
C25_NamesAndAliasesMatched ==
    (TagCalled /\ full_text # None)
        => \A d \in DOMAIN symbol_dict :
              LET record == symbol_dict[d].value
              IN \A name \in NamesOf(record) : \A i \in OccurrencesOf(full_text, name) :
                    \E k \in DOMAIN matches :
                        /\ matches[k].match_method = "company_name"
                        /\ matches[k].confidence = Hundredths(80)
                        /\ matches[k].symbol = record.symbol
                        /\ matches[k].positions = <<<<i, i + Len(name)>>>>

-----------------------------------------------------------------------------
(* Persisting and the tagger's snapshot *)

\* the records the store held when the tagger was constructed (a record a
\* persist call creates carries the number of that call as its time)
StoreAtConstruction == {r \in ticker_symbols : r.created_at = 0}

\* what a call on the snapshot loaded from that store gives for a document
OnSnapshotOf(store, title, text) ==
    LET dicts == load_ticker_data(TRUE, store)
    IN {tag_article_text(title, text, dicts.symbol_dict, dicts.company_name_dict,
                         dicts.alias_dict,
                         compile_known_symbols_pattern(dicts.symbol_dict),
                         compile_company_names_pattern(dicts.company_name_dict),
                         potential_tickers) :
           potential_tickers \in PotentialTickers(title, text)}

\* C27: no step of persist_ticker_associations changes the maps or the
\* patterns of the tagger; a record it creates is of a symbol the symbol map
\* still does not hold; and every tagging call of the document, before or
\* after the persist, ends as a call on the snapshot of the store at
\* construction ends, so with the same results.
C27_PersistLeavesTaggerUnchanged ==
    [][/\ UNCHANGED taggerVars
       /\ \A row \in ticker_symbols' \ ticker_symbols : ~DictHas(symbol_dict', row.symbol)
       /\ (tag_outcome = "none" /\ tag_outcome' # "none")
             => \E r \in OnSnapshotOf(StoreAtConstruction, tag_title, tag_text) :
                   /\ tag_outcome' = r.outcome
                   /\ tag_error' = r.error
                   /\ matches' = r.matches
                   /\ final_matches' = r.final_matches]_vars

\* the document names ZYXQ, a persist call has created the record of ZYXQ and
\* returned, and the second tagging call of the document has ended with ZYXQ
\* still not in the symbol map
C27_Witness ==
    /\ tag_calls = 2
    /\ tag_outcome # "none"
    /\ tag_text = S_ZYXQ
    /\ \E p \in Callers : outcome[p] = "returned"
    /\ \E r \in ticker_symbols \ StoreAtConstruction : r.symbol = S_ZYXQ
    /\ ~DictHas(symbol_dict, S_ZYXQ)
    /\ symbol_dict # <<>>

====
